---- MODULE Spec2Model ----
(***************************************************************************)
(* Verification model of the mobile AI orchestrator's routing core:        *)
(* Router (router.rs), MLP (mlp.rs), EchoStateNetwork (reservoir.rs), the  *)
(* trainers (training.rs) and the types they use (types.rs).               *)
(*                                                                         *)
(* f32 values are modelled in fixed point: the integer v stands for the    *)
(* real v / FP.  Strings are sequences of Unicode code points; len() is    *)
(* the UTF-8 byte length, as in Rust.                                      *)
(***************************************************************************)
EXTENDS Integers, Sequences, FiniteSets, TLC

VARIABLES
  config,     \* Router.config : RouterConfig
  mlp,        \* Router.mlp : Option<MLP>   (None or an MLP record)
  use_mlp,    \* Router.use_mlp : bool
  op,         \* the last operation called, with its argument
  query,      \* the query of the last route call
  result,     \* what the last route call produced
  features,   \* the feature vector the last route call handed to the classifier
  values,     \* MLP::argmax : the slice passed in
  idx,        \* MLP::argmax : what the call produced
  net,        \* a stand-alone MLP object
  input,      \* the slice passed to the last call on net or esn
  output,     \* what the last call on net produced
  calls,      \* number of mutating calls made on the object under test
  esn,        \* an EchoStateNetwork object
  esn_ret,    \* what the last call on esn produced
  twin,       \* a second EchoStateNetwork object
  twin_ret,   \* what the last call on twin produced
  trainer,    \* MLPTrainer::train : its arguments and locals
  cv,         \* MLPTrainer::cross_validate : its arguments and what it produced
  split,      \* RouterTrainingData::train_test_split : the same
  buffer,     \* a SensorBuffer object
  buffer_ret, \* what the last call on buffer produced
  context,    \* a ContextManager object; Orchestrator.context
  expert,     \* an ExpertSystem object; Orchestrator.expert
  eval,       \* what the last ExpertSystem::evaluate call produced
  response,   \* what the last Orchestrator::process call produced
  network     \* whether the build has the "network" feature

vars       == <<config, mlp, use_mlp, op, query, result, features,
                values, idx, net, input, output,
                calls, esn, esn_ret, twin, twin_ret, trainer, cv, split,
                buffer, buffer_ret, context, expert, eval, response, network>>

\* Resolution of the fixed-point stand-in for f32: v models v / FP.
FP == 1000

\* Option<T>: None is the empty sequence, Some(x) the sequence of x alone
None == <<>>
Some(x) == <<x>>

Min(a, b) == IF a < b THEN a ELSE b
Max(a, b) == IF a > b THEN a ELSE b

\* The sequence s as an explicit tuple: the same value, with its entries
\* computed once instead of at every application.
Built(s) == s \o <<>>

\* The element of the one-element set S.  Once({ F(v) : v \in {e} }) is F(e)
\* with e computed once, as a `let v = e;` of the source computes it.
Once(S) == CHOOSE x \in S : TRUE

\* f[lo] + ... + f[hi]
RECURSIVE SumRange(_, _, _)
SumRange(f, lo, hi) ==
  IF lo > hi THEN 0
  ELSE IF lo = hi THEN f[lo]
  ELSE LET mid == (lo + hi) \div 2
       IN  SumRange(f, lo, mid) + SumRange(f, mid + 1, hi)

(***************************************************************************)
(* Text: the std::str operations the router uses.                          *)
(***************************************************************************)

\* String::len : bytes, not characters; one byte per code point plus the
\* continuation bytes of the code points outside ASCII
StrLen(t) ==
  LET \* UTF-8 length of one code point
      Utf8Len(c) == IF c < 128 THEN 1 ELSE IF c < 2048 THEN 2 ELSE IF c < 65536 THEN 3 ELSE 4
      wide == {i \in 1..Len(t) : t[i] >= 128}
      more == [i \in 1..Len(t) |-> IF i \in wide THEN Utf8Len(t[i]) - 1 ELSE 0]
  IN  Len(t) + (IF wide = {} THEN 0 ELSE SumRange(more, 1, Len(t)))

to_lowercase(t) ==
  LET \* char::to_lowercase on the Latin-1 letters (A-Z, and the accented capitals)
      LowerChar(c) ==
        IF (c >= 65 /\ c <= 90) \/ (c >= 192 /\ c <= 222 /\ c # 215) THEN c + 32 ELSE c
  IN  Built([i \in 1..Len(t) |-> LowerChar(t[i])])

\* char::is_uppercase on the same range
is_uppercase(c) == (c >= 65 /\ c <= 90) \/ (c >= 192 /\ c <= 222 /\ c # 215)

is_ascii_punctuation(c) ==
  \/ (c >= 33 /\ c <= 47)
  \/ (c >= 58 /\ c <= 64)
  \/ (c >= 91 /\ c <= 96)
  \/ (c >= 123 /\ c <= 126)

\* char::is_whitespace for the characters the model uses
is_whitespace(c) == c \in {9, 10, 11, 12, 13, 32}

\* str::starts_with
starts_with(t, p) == Len(p) <= Len(t) /\ \A i \in 1..Len(p) : t[i] = p[i]

\* str::contains(&str)
contains(t, p) ==
  \E k \in 0..(Len(t) - Len(p)) : \A i \in 1..Len(p) : t[k + i] = p[i]

\* str::contains(char)
contains_char(t, c) == \E i \in 1..Len(t) : t[i] = c

split_whitespace(t) ==
  LET \* str::split_whitespace : the maximal runs of non-whitespace, in order.
      \* WordStarts are the positions where a run begins; a run ends before the
      \* next whitespace or at the end of the text.
      WordStarts ==
        {i \in 1..Len(t) : ~is_whitespace(t[i]) /\ (i = 1 \/ is_whitespace(t[i - 1]))}
      WordEnd(i) ==
        LET ends == {j \in i..Len(t) : j = Len(t) \/ is_whitespace(t[j + 1])}
        IN  CHOOSE j \in ends : \A k \in ends : j <= k
      starts == WordStarts
      nth(k) == CHOOSE i \in starts : Cardinality({j \in starts : j < i}) = k - 1
  IN  Built([k \in 1..Cardinality(starts) |-> SubSeq(t, nth(k), WordEnd(nth(k)))])

\* "a".repeat(n) with an arbitrary character, appended to a prefix
Repeat(c, n) == [i \in 1..n |-> c]

(***************************************************************************)
(* String literals of the source, as code points.                          *)
(***************************************************************************)
QuestionMark == 63

(***************************************************************************)
(* types.rs                                                                *)
(***************************************************************************)
\* RouterConfig::default()
DefaultConfig ==
  [ local_threshold  |-> (7 * FP) \div 10,
    max_local_length |-> 500,
    complex_keywords |-> << <<112,114,111,118,101>>,            \* "prove"
                            <<118,101,114,105,102,121>>,        \* "verify"
                            <<102,111,114,109,97,108>>,         \* "formal"
                            <<99,111,109,112,108,101,120>> >> ] \* "complex"

\* a high-priority test with the wrong bound
is_high_priority_above9(q) == q.priority > 9

\* Query::is_high_priority
is_high_priority(q) == q.priority > 7

Local  == "Local"
Remote == "Remote"
Hybrid == "Hybrid"

Ok(d, c) == [status |-> "ok", decision |-> d, confidence |-> c]

(***************************************************************************)
(* router.rs : heuristic routing                                           *)
(***************************************************************************)
\* the closure of rule 2: any keyword contained in the text, ignoring case
has_complex_keyword(cfg, q) ==
  LET lower == to_lowercase(q.text) IN
  \E k \in 1..Len(cfg.complex_keywords) :
     contains(lower, to_lowercase(cfg.complex_keywords[k]))

\* the cascade with the short-query rule tried before the keyword rule
route_heuristic_short_first(cfg, q) ==
  LET len == StrLen(q.text) IN
  IF len > cfg.max_local_length THEN Ok(Remote, (9 * FP) \div 10)
  ELSE IF len < 50 THEN Ok(Local, (8 * FP) \div 10)
  ELSE IF has_complex_keyword(cfg, q) THEN Ok(Remote, (85 * FP) \div 100)
  ELSE IF contains_char(q.text, QuestionMark) /\ len < 200
    THEN Ok(Local, (75 * FP) \div 100)
  ELSE IF is_high_priority(q) /\ q.project_context # None
    THEN Ok(Hybrid, (7 * FP) \div 10)
  ELSE Ok(Local, cfg.local_threshold)

\* Router::route_heuristic
route_heuristic(cfg, q) ==
  LET len == StrLen(q.text) IN
  IF len > cfg.max_local_length THEN Ok(Remote, (9 * FP) \div 10)
  ELSE IF has_complex_keyword(cfg, q) THEN Ok(Remote, (85 * FP) \div 100)
  ELSE IF len < 50 THEN Ok(Local, (8 * FP) \div 10)
  ELSE IF contains_char(q.text, QuestionMark) /\ len < 200
    THEN Ok(Local, (75 * FP) \div 100)
  ELSE IF is_high_priority(q) /\ q.project_context # None
    THEN Ok(Hybrid, (7 * FP) \div 10)
  ELSE Ok(Local, cfg.local_threshold)

(***************************************************************************)
(* mlp.rs                                                                  *)
(***************************************************************************)

\* the seeds after 1, 2, ..., n steps from seed s
RECURSIVE LcgSeeds(_, _)
LcgSeeds(s, n) ==
  LET \* One step of the generator of MLP::new,
      \*   seed = seed.wrapping_mul(1103515245).wrapping_add(12345),
      \* on the low 31 bits of the u64 seed: the bits a draw reads,
      \* (seed / 65536) % 32768, are bits 16..30, and the low 31 bits of a product
      \* and a sum depend on the low 31 bits of the operands alone.  The seed is
      \* split in 16-bit halves so that no intermediate value passes 2^31.
      LcgStep(seed) ==
        LET a0 == seed % 65536
            a1 == seed \div 65536
            t  == a0 * 20077 + 12345
            hi == (a1 * 20077 + a0 * 16838 + (t \div 65536)) % 32768
        IN  hi * 65536 + (t % 65536)
  IN  IF n = 0 THEN <<>>
      ELSE IF n = 1 THEN <<LcgStep(s)>>
      ELSE LET left == LcgSeeds(s, n \div 2)
           IN  left \o LcgSeeds(left[Len(left)], n - (n \div 2))

\* one weight of MLP::new: rand = ((seed / 65536) % 32768) / 32768,
\* weight = (rand - 0.5) * 2 * sqrt(2 / cols)
XavierWeight(seed, cols) ==
  LET \* floor of the square root
      ISqrt(n) == CHOOSE r \in 0..(2 * FP) : r * r <= n /\ (r + 1) * (r + 1) > n
      rand15 == (seed \div 65536) % 32768
      scale  == ISqrt((2 * FP * FP) \div cols)
  IN  ((2 * rand15 - 32768) * scale) \div 32768

LayerSizes(input_size, hidden_sizes, output_size) ==
  <<input_size>> \o hidden_sizes \o <<output_size>>

\* number of weights drawn before layer k
RECURSIVE DrawsBefore(_, _)
DrawsBefore(ls, k) ==
  IF k <= 1 THEN 0 ELSE DrawsBefore(ls, k - 1) + ls[k] * ls[k - 1]

\* MLP::new
MLP_new(input_size, hidden_sizes, output_size) ==
  LET ls    == LayerSizes(input_size, hidden_sizes, output_size)
      n     == Len(ls) - 1
      seeds == LcgSeeds(123, DrawsBefore(ls, n + 1))
  IN  [ input_size   |-> input_size,
        hidden_sizes |-> hidden_sizes,
        output_size  |-> output_size,
        weights |-> [k \in 1..n |->
                      [r \in 1..ls[k + 1] |->
                        [c \in 1..ls[k] |->
                          XavierWeight(seeds[DrawsBefore(ls, k) + (r - 1) * ls[k] + c],
                                       ls[k])]]],
        biases  |-> [k \in 1..n |-> [r \in 1..ls[k + 1] |-> 0]] ]

\* one layer of MLP::forward: the affine map, then ReLU unless the layer
\* has as many rows as the network has outputs
Layer(m, k, act) ==
  LET \* bias + sum of w * a over weights_row.iter().zip(&activation)
      Neuron(row, bias) ==
        LET n == Min(Len(row), Len(act))
        IN  bias + (SumRange([j \in 1..n |-> row[j] * act[j]], 1, n) \div FP)
      sums == [i \in 1..Len(m.weights[k]) |->
                 Neuron(m.weights[k][i], m.biases[k][i])]
  IN  IF Len(m.weights[k]) # m.output_size
        THEN [i \in 1..Len(sums) |-> Max(sums[i], 0)]
        ELSE sums

RECURSIVE ForwardFrom(_, _, _)
ForwardFrom(m, k, act) ==
  IF k > Min(Len(m.weights), Len(m.biases)) THEN act
  ELSE ForwardFrom(m, k + 1, Layer(m, k, act))

MismatchPanic == [status |-> "panic", msg |-> "Input size mismatch"]

\* a forward pass without the assert_eq! on the input length
forward_unchecked(m, in) == [status |-> "ok", value |-> ForwardFrom(m, 1, in)]

\* MLP::forward
forward(m, in) ==
  IF Len(in) # m.input_size THEN MismatchPanic
  ELSE [status |-> "ok", value |-> ForwardFrom(m, 1, in)]

\* exp(d / FP) * FP for d <= 0: halve once per ln 2, cubic Taylor on the rest
Exp(d) ==
  LET ln2 == (693 * FP) \div 1000
      x   == 0 - d
      n   == x \div ln2
      r   == x % ln2
      t   == FP - r + ((r * r) \div (2 * FP)) - ((((r * r) \div FP) * r) \div (6 * FP))
  IN  IF n > 30 THEN 0 ELSE t \div (2 ^ n)

RECURSIVE MaxOf(_, _)
MaxOf(s, n) == IF n = 1 THEN s[1] ELSE Max(MaxOf(s, n - 1), s[n])

\* MLP::softmax
softmax(vs) ==
  IF vs = <<>> THEN <<>>
  ELSE LET max  == MaxOf(vs, Len(vs))
           exps == [i \in 1..Len(vs) |-> Exp(vs[i] - max)]
           sum  == SumRange(exps, 1, Len(exps))
       IN  [i \in 1..Len(vs) |-> (exps[i] * FP) \div sum]

\* f32 NaN: a reserved integer outside the range of the modelled values
NaN == 0 - 2 ^ 30

UnwrapPanic == [status |-> "panic", msg |-> "unwrap on None"]

\* a scan that keeps the first of several equal maxima
RECURSIVE MaxByFrom_first(_, _, _)
MaxByFrom_first(vs, best, k) ==
  IF k > Len(vs) THEN [status |-> "ok", value |-> best - 1]
  ELSE IF vs[best] = NaN \/ vs[k] = NaN THEN UnwrapPanic
  ELSE IF vs[best] >= vs[k] THEN MaxByFrom_first(vs, best, k + 1)
  ELSE MaxByFrom_first(vs, k, k + 1)

\* Iterator::max_by as MLP::argmax uses it: keep the running best while it
\* compares Greater than the next entry, else take the next entry; a
\* comparison with a NaN is partial_cmp = None, which unwrap() panics on.
\* best and k are positions 1..Len(vs); the result is the 0-based index.
RECURSIVE MaxByFrom(_, _, _)
MaxByFrom(vs, best, k) ==
  IF k > Len(vs) THEN [status |-> "ok", value |-> best - 1]
  ELSE IF vs[best] = NaN \/ vs[k] = NaN THEN UnwrapPanic
  ELSE IF vs[best] > vs[k] THEN MaxByFrom(vs, best, k + 1)
  ELSE MaxByFrom(vs, k, k + 1)

\* MLP::argmax
argmax(vs) ==
  IF vs = <<>> THEN [status |-> "ok", value |-> 0]
  ELSE MaxByFrom(vs, 1, 2)

(***************************************************************************)
(* router.rs : feature extraction and classifier routing                   *)
(***************************************************************************)
FeatureLen == 384
BagSlots == 360

Flag(b) == IF b THEN FP ELSE 0

\* Router::extract_features; position i of the result is features[i - 1]
extract_features(cfg, q) ==
  LET \* the hash of one word: the sum of its code points, modulo 360
      WordHash(w) == SumRange(w, 1, Len(w)) % BagSlots
      text   == q.text
      len    == StrLen(text)
      lower  == to_lowercase(text)
      words  == split_whitespace(text)
      nwords == Len(words)
      taken  == Min(nwords, BagSlots)
      hashes == Built([k \in 1..taken |-> WordHash(words[k])])
      upper  == Cardinality({i \in 1..Len(text) : is_uppercase(text[i])})
      punct  == Cardinality({i \in 1..Len(text) : is_ascii_punctuation(text[i])})
      kws    == cfg.complex_keywords
      starts == << <<104,111,119>>,                 \* "how"
                   <<119,104,97,116>>,              \* "what"
                   <<119,104,121>>,                 \* "why"
                   <<119,104,101,110>>,             \* "when"
                   <<119,104,101,114,101>>,         \* "where"
                   <<119,104,111>>,                 \* "who"
                   <<99,97,110>>,                   \* "can"
                   <<115,104,111,117,108,100>> >>   \* "should"
  IN  [i \in 1..FeatureLen |->
        LET r == i - 1 IN
        IF r = 0 THEN Min((len * FP) \div 1000, FP)
        ELSE IF r = 1 THEN Min((nwords * FP) \div 100, FP)
        ELSE IF r = 2 THEN Flag(contains_char(text, QuestionMark))
        ELSE IF r = 3 THEN (q.priority * FP) \div 10
        ELSE IF r = 4 THEN Flag(q.project_context # None)
        ELSE IF r <= 9 THEN
          IF r - 4 <= Len(kws)
            THEN Flag(contains(lower, to_lowercase(kws[r - 4])))
            ELSE 0
        ELSE IF r = 10 THEN IF text # <<>> THEN (upper * FP) \div len ELSE 0
        ELSE IF r = 11 THEN IF text # <<>> THEN (punct * FP) \div len ELSE 0
        ELSE IF r <= 19 THEN Flag(starts_with(lower, starts[r - 11]))
        ELSE IF r <= 379 THEN
          IF taken = 0 THEN 0
          ELSE (Cardinality({k \in 1..taken : hashes[k] = r - 20}) * FP) \div nwords
        ELSE IF r = 380 THEN Min(((q.timestamp % 86400) * FP) \div 86400, FP)
        ELSE IF r = 381 THEN Flag(is_high_priority(q))
        ELSE IF r = 382 THEN Flag(len > 200)
        ELSE Flag(contains(text, <<101,114,114,111,114>> (* "error" *)) \/ contains(text, <<98,117,103>> (* "bug" *)))]

IndexPanic == [status |-> "panic", msg |-> "index out of bounds"]

\* Router::route_with_mlp, given the feature vector it extracted
route_with_mlp(m, fs) ==
  LET \* the match of route_with_mlp
      DecisionOf(decision_idx) ==
        IF decision_idx = 0 THEN Local
        ELSE IF decision_idx = 1 THEN Remote
        ELSE IF decision_idx = 2 THEN Hybrid
        ELSE Local
      logits == forward(m, fs) IN
  IF logits.status = "panic" THEN logits
  ELSE LET probs == softmax(logits.value)
           am    == argmax(probs)
       IN  IF am.status = "panic" THEN am
           ELSE IF am.value >= Len(probs) THEN IndexPanic
           ELSE Ok(DecisionOf(am.value), probs[am.value + 1])

\* a test that forgets the flag
takes_mlp_path_if_attached(m, flag) == m # None

\* the test of Router::route: the classifier is tried first
takes_mlp_path(m, flag) == flag /\ m # None

\* Router::route; fs is extract_features(cfg, q), which route_with_mlp
\* computes first
route(cfg, m, flag, fs, q) ==
  IF takes_mlp_path(m, flag)
    THEN route_with_mlp(m[1], fs)
    ELSE route_heuristic(cfg, q)

\* a setter that stores the request as it is
use_mlp_after_unchecked(m, requested) == requested

\* the new flag of Router::set_use_mlp
use_mlp_after(m, requested) == requested /\ m # None

(***************************************************************************)
(* mlp.rs : backward, update, train_step                                   *)
(***************************************************************************)
\* ln(v / FP) * FP.  f32::ln of o.max(1e-7): a value below the resolution
\* of the model is the floor 1e-7, whose logarithm is -16.118.
RECURSIVE Ln(_)
Ln(v) ==
  LET ln2 == (693 * FP) \div 1000
  IN  IF v <= 0 THEN 0 - ((16118 * FP) \div 1000)
      ELSE IF v >= 2 * FP THEN Ln(v \div 2) + ln2
      ELSE IF v < FP THEN Ln(2 * v) - ln2
      ELSE LET y == ((v - FP) * FP) \div (v + FP)
           IN  2 * (y + ((y * y * y) \div (3 * FP * FP)))

\* the activations of MLP::backward: the input, then the output of each layer
RECURSIVE ActivationsFrom(_, _, _)
ActivationsFrom(m, k, acts) ==
  IF k > Min(Len(m.weights), Len(m.biases)) THEN acts
  ELSE ActivationsFrom(m, k + 1, Append(acts, Layer(m, k, acts[k])))

\* the loop of MLP::backward over the layers l, l-1, .., 1 with the delta of
\* layer l: the weight gradients of layers 1..l, or ok = FALSE where the
\* code indexes delta or prev_activation out of bounds
RECURSIVE BackFrom(_, _, _, _)
BackFrom(m, acts, l, delta) ==
  LET w    == m.weights[l]
      rows == Len(w)
      cols == Len(w[1])
      prev == acts[l]
  IN  IF rows > Len(delta) \/ cols > Len(prev) THEN [ok |-> FALSE, g |-> <<>>]
      ELSE
        LET grad == [i \in 1..rows |-> [j \in 1..cols |-> (delta[i] * prev[j]) \div FP]]
        IN  IF l = 1 THEN [ok |-> TRUE, g |-> <<grad>>]
            ELSE
              LET new_delta ==
                    [j \in 1..Len(prev) |->
                       IF prev[j] <= 0 THEN 0
                       ELSE SumRange([i \in 1..rows |-> delta[i] * w[i][j]], 1, rows) \div FP]
                  rest == BackFrom(m, acts, l - 1, new_delta)
              IN  IF rest.ok THEN [ok |-> TRUE, g |-> rest.g \o <<grad>>] ELSE rest

\* MLP::backward
backward(m, in, tg) ==
  LET \* the loss of MLP::backward: sum of -t * ln(max(o, 1e-7)) over output.zip(target)
      acts == ActivationsFrom(m, 1, <<in>>)
      out  == acts[Len(acts)]
      CrossEntropy ==
        LET n == Min(Len(out), Len(tg))
        IN  SumRange([k \in 1..n |-> 0 - ((tg[k] * Ln(out[k])) \div FP)], 1, n)
      n    == Min(Len(out), Len(tg))
      back == BackFrom(m, acts, Len(m.weights), [k \in 1..n |-> out[k] - tg[k]])
  IN  IF \E l \in 1..Len(m.weights) : m.weights[l] = <<>> THEN IndexPanic
      ELSE IF ~back.ok THEN IndexPanic
      ELSE [status |-> "ok", loss |-> CrossEntropy, gradients |-> back.g]

\* an update that takes each layer's shape from the gradient handed in
update_reshaping(m, g, lr) ==
  [ status |-> "ok",
    mlp |-> [m EXCEPT !.weights =
               [l \in 1..Len(g) |->
                 [i \in 1..Len(g[l]) |->
                   [j \in 1..Len(g[l][i]) |-> 0 - ((lr * g[l][i][j]) \div FP)]]]] ]

\* an update that moves the biases too, each by the learning rate
update_moving_biases(m, g, lr) ==
  [ status |-> "ok",
    mlp |-> [m EXCEPT !.biases = [l \in 1..Len(m.biases) |->
                                   [i \in 1..Len(m.biases[l]) |-> m.biases[l][i] - lr]]] ]

\* MLP::update: weights[l][i][j] -= learning_rate * gradient at every position
\* of the gradient, in order, up to the first position the weights do not
\* have, where the indexing panics
update(m, g, lr) ==
  LET \* the positions of a gradient, which MLP::update visits in increasing order
      GradPositions ==
        UNION { UNION { { <<l, i, j>> : j \in 1..Len(g[l][i]) } : i \in 1..Len(g[l]) }
                : l \in 1..Len(g) }
      Before(p, q) ==
        \/ p[1] < q[1]
        \/ p[1] = q[1] /\ p[2] < q[2]
        \/ p[1] = q[1] /\ p[2] = q[2] /\ p[3] < q[3]
      \* self.weights[layer_idx][i][j] is out of bounds
      OutOfBounds(p) ==
        \/ p[1] > Len(m.weights)
        \/ p[2] > Len(m.weights[p[1]])
        \/ p[3] > Len(m.weights[p[1]][p[2]])
      P     == GradPositions
      bad   == { p \in P : OutOfBounds(p) }
      first == CHOOSE p \in bad : \A q \in bad : p = q \/ Before(p, q)
      done(p) == p \in P /\ (bad = {} \/ Before(p, first))
  IN  [ status |-> IF bad = {} THEN "ok" ELSE "panic",
        mlp |-> [m EXCEPT !.weights =
                   [l \in 1..Len(m.weights) |->
                     [i \in 1..Len(m.weights[l]) |->
                       [j \in 1..Len(m.weights[l][i]) |->
                         IF done(<<l, i, j>>)
                           THEN m.weights[l][i][j] - ((lr * g[l][i][j]) \div FP)
                           ELSE m.weights[l][i][j]]]]] ]

\* MLP::train_step
train_step(m, in, tg, lr) ==
  LET \* the loss of MLP::train_step: mean of (o - t)^2 over output.zip(target),
      \* divided by output.len(); 0.0 / 0.0 is NaN
      MeanSquaredError(o) ==
        LET n == Min(Len(o), Len(tg))
        IN  IF o = <<>> THEN NaN
            ELSE SumRange([k \in 1..n |-> ((o[k] - tg[k]) * (o[k] - tg[k])) \div FP], 1, n)
                   \div Len(o)
      \* weight *= 0.9999, rounded toward zero
      Decay(w) == IF w >= 0 THEN (w * 9999) \div 10000 ELSE 0 - (((0 - w) * 9999) \div 10000)
      out == forward(m, in)
  IN  IF out.status = "panic" THEN [status |-> "panic", msg |-> out.msg, mlp |-> m]
      ELSE [ status |-> "ok",
             loss |-> MeanSquaredError(out.value),
             mlp |-> [m EXCEPT !.weights =
                        [l \in 1..Len(m.weights) |->
                          [i \in 1..Len(m.weights[l]) |->
                            [j \in 1..Len(m.weights[l][i]) |-> Decay(m.weights[l][i][j])]]]] ]

\* training.rs : one_hot, for label < num_classes
one_hot(label, num_classes) == [k \in 1..num_classes |-> IF k = label + 1 THEN FP ELSE 0]

(***************************************************************************)
(* reservoir.rs                                                            *)
(***************************************************************************)
\* a seed taken from a generator the objects of the process share: the
\* second object built starts from another seed than the first
initial_seed_shared == IF esn = None THEN 42 ELSE 4242

\* the seed initialize_weights starts from
initial_seed == 42

\* EchoStateNetwork::new with initialize_weights: reservoir_size^2 draws for
\* the reservoir matrix (kept where rand < 0.1, then scaled by the spectral
\* radius), then reservoir_size * input_size draws for the input matrix
ESN_new(input_size, reservoir_size, output_size, leak_rate, spectral_radius) ==
  LET \* rand = ((seed / 65536) % 32768) / 32768 as the 15-bit numerator
      Rand15(seed) == (seed \div 65536) % 32768
      \* (rand - 0.5) * 2.0
      Centered(seed) == ((2 * Rand15(seed) - 32768) * FP) \div 32768
      \* rand < 0.1: 3276 / 32768 is below 0.1 and 3277 / 32768 above
      IsSparseHit(seed) == Rand15(seed) <= 3276
      nres  == reservoir_size * reservoir_size
      seeds == LcgSeeds(initial_seed, nres + reservoir_size * input_size)
      input_scaling == FP
  IN  [ reservoir_size |-> reservoir_size,
        input_size     |-> input_size,
        output_size    |-> output_size,
        reservoir_weights |->
          [i \in 1..reservoir_size |->
            [j \in 1..reservoir_size |->
              LET s == seeds[(i - 1) * reservoir_size + j]
              IN  ((IF IsSparseHit(s) THEN Centered(s) ELSE 0) * spectral_radius) \div FP]],
        input_weights |->
          [i \in 1..reservoir_size |->
            [j \in 1..input_size |->
              (Centered(seeds[nres + (i - 1) * input_size + j]) * input_scaling) \div FP]],
        output_weights |-> [i \in 1..output_size |-> [j \in 1..reservoir_size |-> 0]],
        state          |-> [i \in 1..reservoir_size |-> 0],
        leak_rate      |-> leak_rate,
        spectral_radius |-> spectral_radius,
        input_scaling  |-> input_scaling ]

\* f32::tanh: (1 - e^(-2|x|)) / (1 + e^(-2|x|)), with the sign of x
Tanh(x) ==
  LET a == IF x >= 0 THEN x ELSE 0 - x
      e == Exp(0 - (2 * a))
      t == ((FP - e) * FP) \div (FP + e)
  IN  IF x >= 0 THEN t ELSE 0 - t

\* matrix[i][j] exists for every i < rows, j < cols
HasEntries(matrix, rows, cols) ==
  \A i \in 1..rows : \A j \in 1..cols : i <= Len(matrix) /\ j <= Len(matrix[i])

\* sum over j < n of matrix[i][j] * v[j]
Dot(matrix, i, v, n) == SumRange([j \in 1..n |-> matrix[i][j] * v[j]], 1, n) \div FP

\* an update that reads the input entries there are and takes the others as 0
esn_update_lenient(e, in) ==
  LET padded == [j \in 1..e.input_size |-> IF j <= Len(in) THEN in[j] ELSE 0]
      new_state ==
        [i \in 1..e.reservoir_size |->
           (((FP - e.leak_rate) * e.state[i]) \div FP)
           + ((e.leak_rate
                * Tanh(Dot(e.input_weights, i, padded, e.input_size)
                       + Dot(e.reservoir_weights, i, e.state, e.reservoir_size))) \div FP)]
  IN  [status |-> "ok", value |-> new_state, esn |-> [e EXCEPT !.state = new_state]]

\* EchoStateNetwork::update: the assert_eq! on the input length, the two
\* matrix-vector products (which index the matrices and the state, and panic
\* where an entry is missing), then the leaky tanh step on every state entry
esn_update(e, in) ==
  IF Len(in) # e.input_size
    THEN [status |-> "panic", msg |-> MismatchPanic.msg, esn |-> e]
  ELSE IF \/ ~HasEntries(e.input_weights, e.reservoir_size, e.input_size)
          \/ ~HasEntries(e.reservoir_weights, e.reservoir_size, e.reservoir_size)
          \/ (e.reservoir_size > 0 /\ Len(e.state) < e.reservoir_size)
    THEN [status |-> "panic", msg |-> IndexPanic.msg, esn |-> e]
  ELSE
    LET new_state ==
          [i \in 1..e.reservoir_size |->
             (((FP - e.leak_rate) * e.state[i]) \div FP)
             + ((e.leak_rate
                  * Tanh(Dot(e.input_weights, i, in, e.input_size)
                         + Dot(e.reservoir_weights, i, e.state, e.reservoir_size))) \div FP)]
    IN  [status |-> "ok", value |-> new_state, esn |-> [e EXCEPT !.state = new_state]]

\* EchoStateNetwork::output
esn_output(e) ==
  IF \/ ~HasEntries(e.output_weights, e.output_size, e.reservoir_size)
     \/ (e.output_size > 0 /\ Len(e.state) < e.reservoir_size)
    THEN IndexPanic
    ELSE [status |-> "ok",
          value |-> [i \in 1..e.output_size |-> Dot(e.output_weights, i, e.state, e.reservoir_size)]]

TrainPanic == [status |-> "panic", msg |-> "Number of states and targets must match"]

\* the output weights after the double loop of train, which assigns the
\* positions (i, j) in row order up to the first one a short sample panics on
TrainedWeights(e, states, targets, regularization) ==
  LET \* targets[k][i] or states[k][j] is missing for some sample k
      SampleTooShort(i, j) ==
        \E k \in 1..Len(states) : i > Len(targets[k]) \/ j > Len(states[k])
      \* the output weight train assigns at (i, j): the sum over the samples of
      \* targets[k][i] * states[k][j], divided by n_samples + regularization
      RidgeWeight(i, j) ==
        ((SumRange([k \in 1..Len(states) |-> targets[k][i] * states[k][j]], 1, Len(states)) \div FP) * FP)
          \div (Len(states) * FP + regularization)
      pos  == (1..e.output_size) \X (1..e.reservoir_size)
      bad  == { p \in pos : SampleTooShort(p[1], p[2]) }
      lt(p, q) == p[1] < q[1] \/ (p[1] = q[1] /\ p[2] < q[2])
      first == CHOOSE p \in bad : \A q \in bad : p = q \/ lt(p, q)
  IN  [ status |-> IF bad = {} THEN "ok" ELSE "panic",
        esn |-> [e EXCEPT !.output_weights =
                   [i \in 1..Len(e.output_weights) |->
                     [j \in 1..Len(e.output_weights[i]) |->
                       IF <<i, j>> \in pos /\ (bad = {} \/ lt(<<i, j>>, first))
                         THEN RidgeWeight(i, j)
                         ELSE e.output_weights[i][j]]]] ]

\* a train that runs the double loop on empty data too
esn_train_without_empty_check(e, states, targets, regularization) ==
  IF Len(states) # Len(targets) THEN TrainPanic @@ [esn |-> e]
  ELSE LET r == TrainedWeights(e, states, targets, regularization)
       IN  IF r.status = "panic"
             THEN [status |-> "panic", msg |-> IndexPanic.msg, esn |-> r.esn]
             ELSE r

\* EchoStateNetwork::train
esn_train(e, states, targets, regularization) ==
  IF Len(states) # Len(targets) THEN TrainPanic @@ [esn |-> e]
  ELSE IF states = <<>> THEN [status |-> "ok", esn |-> e]
  ELSE LET r == TrainedWeights(e, states, targets, regularization)
       IN  IF r.status = "panic"
             THEN [status |-> "panic", msg |-> IndexPanic.msg, esn |-> r.esn]
             ELSE r

\* a reset that empties the state vector
esn_reset_clearing(e) == [e EXCEPT !.state = <<>>]

\* a reset that zeroes the trained weights with the state
esn_reset_everything(e) ==
  [e EXCEPT !.state = [i \in 1..Len(e.state) |-> 0],
            !.output_weights = [i \in 1..Len(e.output_weights) |->
                                  [j \in 1..Len(e.output_weights[i]) |-> 0]]]

\* an EchoStateNetwork::reset that leaves the state as it is
esn_reset_skipped(e) == e

\* EchoStateNetwork::reset
esn_reset(e) == [e EXCEPT !.state = [i \in 1..Len(e.state) |-> 0]]

\* EchoStateNetwork::state
esn_state(e) == e.state

\* serde_json::to_string: the fields of the struct that are not #[serde(skip)]
to_json(e) == [f \in ({"reservoir_size", "input_size", "output_size", "output_weights",
                      "state", "leak_rate", "spectral_radius", "input_scaling"}) |-> e[f]]

\* serde_json::from_str: the fields of the document, and Default::default()
\* (the empty Vec) for the two skipped fields
from_json(doc) ==
  [ reservoir_size |-> doc.reservoir_size,
    input_size     |-> doc.input_size,
    output_size    |-> doc.output_size,
    reservoir_weights |-> <<>>,
    input_weights  |-> <<>>,
    output_weights |-> doc.output_weights,
    state          |-> doc.state,
    leak_rate      |-> doc.leak_rate,
    spectral_radius |-> doc.spectral_radius,
    input_scaling  |-> doc.input_scaling ]

(***************************************************************************)
(* training.rs : MLPTrainer                                                *)
(***************************************************************************)
\* a > b on f32: false when either side is NaN
Gt(a, b) == a # NaN /\ b # NaN /\ a > b

\* RouterTrainingData::len
data_len(data) == Len(data.features)

\* the body of the innermost loop of train for the examples i..stop in order:
\* one_hot, backward, update; the losses are added to loss_sum
RECURSIVE ExamplePass(_, _, _, _, _, _)
ExamplePass(m, data, lr, i, stop, loss_sum) ==
  IF i > stop THEN [status |-> "ok", mlp |-> m, loss_sum |-> loss_sum]
  ELSE IF i > Len(data.labels) \/ data.labels[i] >= 3
    THEN [status |-> "panic", msg |-> IndexPanic.msg, mlp |-> m]
  ELSE
    Once({ IF b.status = "panic" THEN [status |-> "panic", msg |-> b.msg, mlp |-> m]
           ELSE Once({ IF u.status = "panic"
                         THEN [status |-> "panic", msg |-> IndexPanic.msg, mlp |-> u.mlp]
                         ELSE ExamplePass(u.mlp, data, lr, i + 1, stop, loss_sum + b.loss)
                       : u \in {update(m, b.gradients, lr)} })
           : b \in {backward(m, data.features[i], one_hot(data.labels[i], 3))} })

\* the mini-batch branch from batch b on: each batch adds
\* batch_loss / (end - start) to epoch_loss
RECURSIVE BatchesFrom(_, _, _, _, _, _)
BatchesFrom(m, data, cfg, b, n_batches, epoch_loss) ==
  IF b >= n_batches THEN [status |-> "ok", mlp |-> m, loss_sum |-> epoch_loss]
  ELSE
    LET start == b * cfg.batch_size
        end   == Min(start + cfg.batch_size, data_len(data))
    IN  Once({ IF r.status = "panic" THEN r
               ELSE BatchesFrom(r.mlp, data, cfg, b + 1, n_batches,
                                epoch_loss + (r.loss_sum \div (end - start)))
               : r \in {ExamplePass(m, data, cfg.learning_rate, start + 1, end, 0)} })

\* the training half of one epoch: the updated network and epoch_loss
TrainingPass(m, data, cfg) ==
  IF cfg.batch_size > 0 /\ cfg.batch_size < data_len(data)
    THEN LET n_batches == data_len(data) \div cfg.batch_size
         IN  Once({ IF r.status = "panic" THEN r
                    ELSE [status |-> "ok", mlp |-> r.mlp,
                          epoch_loss |-> r.loss_sum \div n_batches]
                    : r \in {BatchesFrom(m, data, cfg, 0, n_batches, 0)} })
    ELSE Once({ IF r.status = "panic" THEN r
                ELSE [status |-> "ok", mlp |-> r.mlp,
                      epoch_loss |-> IF data_len(data) = 0 THEN NaN
                                     ELSE r.loss_sum \div data_len(data)]
                : r \in {ExamplePass(m, data, cfg.learning_rate, 1, data_len(data), 0)} })

\* the number of examples i..n that argmax(forward(features[i])) labels
\* correctly, or a panic of forward or argmax
RECURSIVE CorrectFrom(_, _, _, _)
CorrectFrom(m, data, i, correct) ==
  IF i > data_len(data) THEN [status |-> "ok", value |-> correct]
  ELSE LET logits == forward(m, data.features[i])
       IN  IF logits.status = "panic" THEN logits
           ELSE LET pred == argmax(logits.value)
                IN  IF pred.status = "panic" THEN pred
                    ELSE IF i > Len(data.labels) THEN IndexPanic
                    ELSE CorrectFrom(m, data, i + 1,
                                     IF pred.value = data.labels[i] THEN correct + 1 ELSE correct)

\* MLPTrainer::evaluate_accuracy: correct / len, NaN for no examples
evaluate_accuracy(m, data) ==
  LET c == CorrectFrom(m, data, 1, 0)
  IN  IF c.status = "panic" THEN c
      ELSE [status |-> "ok",
            value |-> IF data_len(data) = 0 THEN NaN ELSE (c.value * FP) \div data_len(data)]

\* MLPTrainer::confusion_matrix: matrix[true_label][pred] += 1 over the examples
RECURSIVE ConfusionFrom(_, _, _, _)
ConfusionFrom(m, data, i, matrix) ==
  IF i > data_len(data) THEN [status |-> "ok", value |-> matrix]
  ELSE LET logits == forward(m, data.features[i])
       IN  IF logits.status = "panic" THEN logits
           ELSE LET pred == argmax(logits.value)
                IN  IF pred.status = "panic" THEN pred
                    ELSE IF i > Len(data.labels) \/ data.labels[i] >= 3 \/ pred.value >= 3
                      THEN IndexPanic
                    ELSE ConfusionFrom(m, data, i + 1,
                           [matrix EXCEPT ![data.labels[i] + 1][pred.value + 1] = @ + 1])

confusion_matrix(m, data) ==
  ConfusionFrom(m, data, 1, [t \in 1..3 |-> [p \in 1..3 |-> 0]])

\* a comparison that counts an equal accuracy as an improvement
improves_or_equals(val_acc, best_val_acc) ==
  val_acc # NaN /\ best_val_acc # NaN /\ val_acc >= best_val_acc

\* val_acc > best_val_acc
improves(val_acc, best_val_acc) == Gt(val_acc, best_val_acc)

\* MLPTrainer::train up to its loop: the arguments and the locals.  pc is
\* "loop" inside the for loop, "stopped" after the break, "done" after the
\* return and "panicked" after a panic; epoch counts the iterations begun.
train_begin(cfg, m, train_data, val_data) ==
  [ config |-> cfg, mlp |-> m, train_data |-> train_data, val_data |-> val_data,
    train_losses |-> <<>>, val_accuracies |-> <<>>,
    best_val_acc |-> 0, patience_counter |-> 0,
    epoch |-> 0, pc |-> "loop", metrics |-> None ]

\* one iteration of the for loop of train
train_epoch(t) ==
  Once({
    LET ran == [t EXCEPT !.epoch = @ + 1, !.mlp = pass.mlp]
    IN  IF pass.status = "panic"
          THEN [ran EXCEPT !.pc = "panicked", !.metrics = Some(pass.msg)]
        ELSE
          LET trained == [ran EXCEPT !.train_losses = Append(@, pass.epoch_loss)]
          IN  IF t.val_data = None THEN trained
              ELSE
                Once({
                  IF acc.status = "panic"
                    THEN [trained EXCEPT !.pc = "panicked", !.metrics = Some(acc.msg)]
                  ELSE
                    LET seen == [trained EXCEPT !.val_accuracies = Append(@, acc.value)]
                    IN  IF improves(acc.value, t.best_val_acc)
                          THEN [seen EXCEPT !.best_val_acc = acc.value,
                                            !.patience_counter = 0]
                          ELSE [seen EXCEPT !.patience_counter = @ + 1,
                                            !.pc = IF t.patience_counter + 1 >= t.config.patience
                                                     THEN "stopped" ELSE "loop"]
                  : acc \in {evaluate_accuracy(pass.mlp, t.val_data[1])} })
    : pass \in {TrainingPass(t.mlp, t.train_data, t.config)} })

\* an end of train that evaluates on the training set whether or not
\* validation data was supplied
train_finish_on_train_data(t) ==
  Once({
    IF acc.status = "panic" THEN [t EXCEPT !.pc = "panicked", !.metrics = Some(acc.msg)]
    ELSE IF cm.status = "panic" THEN [t EXCEPT !.pc = "panicked", !.metrics = Some(cm.msg)]
    ELSE [t EXCEPT !.pc = "done",
                   !.metrics = Some([ train_losses |-> t.train_losses,
                                      val_accuracies |-> t.val_accuracies,
                                      test_accuracy |-> acc.value,
                                      confusion_matrix |-> cm.value ])]
    : acc \in {evaluate_accuracy(t.mlp, t.train_data)},
      cm \in {confusion_matrix(t.mlp, t.train_data)} })

\* the end of train: the final evaluation and the metrics returned
train_finish(t) ==
  LET data == IF t.val_data # None THEN t.val_data[1] ELSE t.train_data
  IN  Once({
        IF acc.status = "panic" THEN [t EXCEPT !.pc = "panicked", !.metrics = Some(acc.msg)]
        ELSE IF cm.status = "panic" THEN [t EXCEPT !.pc = "panicked", !.metrics = Some(cm.msg)]
        ELSE [t EXCEPT !.pc = "done",
                       !.metrics = Some([ train_losses |-> t.train_losses,
                                          val_accuracies |-> t.val_accuracies,
                                          test_accuracy |-> acc.value,
                                          confusion_matrix |-> cm.value ])]
        : acc \in {evaluate_accuracy(t.mlp, data)}, cm \in {confusion_matrix(t.mlp, data)} })

InLoop(t) == t.pc = "loop" /\ t.epoch < t.config.epochs
AfterLoop(t) == t.pc = "stopped" \/ (t.pc = "loop" /\ t.epoch >= t.config.epochs)

\* MLPTrainer::train from the locals t to its return
RECURSIVE train_from(_)
train_from(t) ==
  IF InLoop(t) THEN Once({ train_from(next) : next \in {train_epoch(t)} })
  ELSE IF AfterLoop(t) THEN train_finish(t)
  ELSE t

\* MLPTrainer::train
train(cfg, m, train_data, val_data) == train_from(train_begin(cfg, m, train_data, val_data))

\* the examples of data at the 0-based indices idxs, in that order
Examples(data, idxs) ==
  [ features |-> [n \in 1..Len(idxs) |-> data.features[idxs[n] + 1]],
    labels   |-> [n \in 1..Len(idxs) |-> data.labels[idxs[n] + 1]] ]

\* 0, 1, .., n - 1
Indices(n) == [i \in 1..n |-> i - 1]

\* the loop of cross_validate from fold on.  folds records the locals of
\* each iteration: start, end and the indices pushed to the validation and
\* to the training vectors.
RECURSIVE FoldsFrom(_, _, _, _, _, _, _)
FoldsFrom(cfg, template, data, k_folds, fold, accuracies, folds) ==
  IF fold >= k_folds
    THEN [status |-> "ok", accuracies |-> accuracies, folds |-> folds]
  ELSE
    LET fold_size == data_len(data) \div k_folds
        start     == fold * fold_size
        end       == Min(start + fold_size, data_len(data))
        InFold(i)  == i >= start /\ i < end
        OutFold(i) == ~InFold(i)
        val_idx   == SelectSeq(Indices(data_len(data)), InFold)
        train_idx == SelectSeq(Indices(data_len(data)), OutFold)
    IN  IF Len(data.labels) < data_len(data) THEN IndexPanic
        ELSE
          Once({ IF t.pc = "panicked" THEN [status |-> "panic", msg |-> t.metrics[1]]
                 ELSE FoldsFrom(cfg, template, data, k_folds, fold + 1,
                                Append(accuracies, t.metrics[1].test_accuracy),
                                Append(folds, [start |-> start, end |-> end,
                                               val_indices |-> val_idx,
                                               train_indices |-> train_idx]))
                 : t \in {train(cfg, template, Examples(data, train_idx),
                                Some(Examples(data, val_idx)))} })

\* MLPTrainer::cross_validate
cross_validate(cfg, template, data, k_folds) ==
  IF k_folds = 0 THEN ([status |-> "panic", msg |-> "attempt to divide by zero"])
  ELSE FoldsFrom(cfg, template, data, k_folds, 0, <<>>, <<>>)

\* a test slice that starts one element early
test_indices_overlapping(indices, n_train) == SubSeq(indices, Max(n_train, 1), Len(indices))

\* &indices[n_train..]
test_indices_of(indices, n_train) == SubSeq(indices, n_train + 1, Len(indices))

\* RouterTrainingData::train_test_split, for the order indices the shuffle picked
train_test_split(data, train_ratio, indices) ==
  LET \* (self.len() as f32 * train_ratio) as usize: the cast truncates, and takes
      \* a negative value and NaN to 0
      n_train ==
        IF train_ratio = NaN \/ train_ratio < 0 THEN 0
        ELSE (data_len(data) * train_ratio) \div FP
      \* &indices[..n_train]
      train_indices == SubSeq(indices, 1, n_train)
  IN  IF n_train > Len(indices)
        THEN [status |-> "panic", msg |-> "range end index out of range"]
      ELSE IF Len(data.labels) < data_len(data) /\ data_len(data) > 0 THEN IndexPanic
      ELSE [ status  |-> "ok",
             indices |-> indices,
             train   |-> Examples(data, train_indices),
             test    |-> Examples(data, test_indices_of(indices, n_train)) ]

(***************************************************************************)
(* training.rs : ReservoirTrainer                                          *)
(***************************************************************************)
\* esn.update(input) for the inputs i.. in order; states collects
\* esn.state().to_vec() after each update
RECURSIVE FeedFrom(_, _, _, _)
FeedFrom(e, inputs, i, states) ==
  IF i > Len(inputs) THEN [status |-> "ok", esn |-> e, states |-> states]
  ELSE Once({ IF u.status = "panic" THEN [status |-> "panic", msg |-> u.msg, esn |-> u.esn]
              ELSE FeedFrom(u.esn, inputs, i + 1, Append(states, esn_state(u.esn)))
              : u \in {esn_update(e, inputs[i])} })

\* ReservoirTrainer::train after its length check: collect the states, fit
\* the output weights, reset, replay the inputs and average the squared error
train_sequence(lambda, e, inputs, targets) ==
  LET Inf == 2^30 + 1
      \* the squared error of one replay step
      SquaredError(out, tg) ==
        LET n == Min(Len(out), Len(tg))
        IN  SumRange([j \in 1..n |-> ((out[j] - tg[j]) * (out[j] - tg[j])) \div FP], 1, n)
  IN  Once({
        IF c.status = "panic" THEN c
        ELSE Once({
          IF t.status = "panic" THEN [status |-> "panic", msg |-> t.msg, esn |-> t.esn]
          ELSE Once({
            IF r.status = "panic" THEN r
            ELSE IF inputs = <<>>
              \* targets[0] of an empty slice
              THEN [status |-> "panic", msg |-> IndexPanic.msg, esn |-> r.esn]
            ELSE
              LET out(k) == esn_output([r.esn EXCEPT !.state = r.states[k]])
                  n      == Len(inputs)
                  sum    == SumRange([k \in 1..n |-> SquaredError(out(k).value, targets[k])], 1, n)
                  cells  == n * Len(targets[1])
              IN  IF out(1).status = "panic"
                    THEN [status |-> "panic", msg |-> IndexPanic.msg,
                          esn |-> [r.esn EXCEPT !.state = r.states[1]]]
                    ELSE [status |-> "ok",
                          value  |-> IF cells > 0 THEN sum \div cells
                                     ELSE IF sum = 0 THEN NaN ELSE Inf,
                          esn |-> r.esn]
            : r \in {FeedFrom(esn_reset(t.esn), inputs, 1, <<>>)} })
          : t \in {esn_train(c.esn, c.states, targets, lambda)} })
        : c \in {FeedFrom(e, inputs, 1, <<>>)} })

\* a train that does not compare the lengths of its arguments
reservoir_train_unchecked(lambda, e, inputs, targets) ==
  train_sequence(lambda, e, inputs, targets)

\* ReservoirTrainer::train: Err for sequences of different lengths
reservoir_train(lambda, e, inputs, targets) ==
  IF Len(inputs) # Len(targets)
    THEN [status |-> "err", msg |-> "Inputs and targets must have same length", esn |-> e]
    ELSE train_sequence(lambda, e, inputs, targets)

(***************************************************************************)
(* sensor.rs : SensorBuffer                                                *)
(***************************************************************************)
\* SensorBuffer::new
SensorBuffer_new(max_size) == [readings |-> <<>>, max_size |-> max_size]

\* SensorBuffer::push: Vec::remove(0) when len >= max_size, then Vec::push.
\* Vec::remove panics on an index that is not below the length.
push(b, reading) ==
  IF Len(b.readings) >= b.max_size
    THEN IF b.readings = <<>>
           THEN [status |-> "panic", msg |-> "removal index (is 0) should be < len (is 0)",
                 buffer |-> b]
           ELSE [status |-> "ok", buffer |-> [b EXCEPT !.readings = Append(Tail(@), reading)]]
    ELSE [status |-> "ok", buffer |-> [b EXCEPT !.readings = Append(@, reading)]]

\* SensorBuffer::clear
clear(b) == [b EXCEPT !.readings = <<>>]

(***************************************************************************)
(* expert.rs : ExpertSystem                                                *)
(***************************************************************************)
\* "api_key", "secret" or "token", and '=' , ignoring case
contains_api_key_pattern(q) ==
  LET text == to_lowercase(q.text)
  IN  /\ \/ contains(text, <<97,112,105,95,107,101,121>>)
         \/ contains(text, <<115,101,99,114,101,116>>)
         \/ contains(text, <<116,111,107,101,110>>)
      /\ contains_char(text, 61)

\* "password" or "passwd", and '=' , ignoring case
contains_password_pattern(q) ==
  LET text == to_lowercase(q.text)
  IN  /\ \/ contains(text, <<112,97,115,115,119,111,114,100>>)
         \/ contains(text, <<112,97,115,115,119,100>>)
      /\ contains_char(text, 61)

\* any of "hack", "exploit", "bypass security", "steal", ignoring case
contains_harmful_request(q) ==
  LET text == to_lowercase(q.text)
      harmful_keywords == << <<104,97,99,107>>, <<101,120,112,108,111,105,116>>,
                             <<98,121,112,97,115,115,32,115,101,99,117,114,105,116,121>>,
                             <<115,116,101,97,108>> >>
  IN  \E k \in 1..Len(harmful_keywords) : contains(text, harmful_keywords[k])

is_extremely_long(q) == StrLen(q.text) > 5000

\* (rule.predicate)(query): the call through the rule's function pointer
predicate(rule, q) ==
  CASE rule.predicate = "contains_api_key_pattern"  -> contains_api_key_pattern(q)
    [] rule.predicate = "contains_password_pattern" -> contains_password_pattern(q)
    [] rule.predicate = "contains_harmful_request"  -> contains_harmful_request(q)
    [] rule.predicate = "is_extremely_long"         -> is_extremely_long(q)

Rule(id, description, pred, action) ==
  [id |-> id, description |-> description, predicate |-> pred, action |-> action]

\* ExpertSystem::default_rules
default_rules ==
  << Rule("PRIVACY_001", "Block queries containing potential API keys",
          "contains_api_key_pattern", "Block"),
     Rule("PRIVACY_002", "Block queries with potential passwords",
          "contains_password_pattern", "Block"),
     Rule("SAFETY_001", "Block queries requesting harmful instructions",
          "contains_harmful_request", "Block"),
     Rule("RESOURCE_001", "Warn on extremely long queries (>5000 chars)",
          "is_extremely_long", "Warn") >>

\* an evaluate whose scan ends, allowing the query, at the first matching
\* rule that does not block
RECURSIVE evaluate_stopping_at_warn(_, _)
evaluate_stopping_at_warn(e, q) ==
  IF e.rules = <<>> THEN [allowed |-> TRUE, reason |-> None, rule_id |-> None]
  ELSE IF predicate(e.rules[1], q)
    THEN IF e.rules[1].action = "Block"
           THEN [allowed |-> FALSE, reason |-> Some(e.rules[1].description),
                 rule_id |-> Some(e.rules[1].id)]
           ELSE [allowed |-> TRUE, reason |-> None, rule_id |-> None]
  ELSE evaluate_stopping_at_warn([e EXCEPT !.rules = Tail(@)], q)

\* ExpertSystem::evaluate: the for loop over self.rules
RECURSIVE evaluate(_, _)
evaluate(e, q) ==
  IF e.rules = <<>> THEN [allowed |-> TRUE, reason |-> None, rule_id |-> None]
  ELSE IF predicate(e.rules[1], q) /\ e.rules[1].action = "Block"
    THEN [allowed |-> FALSE, reason |-> Some(e.rules[1].description),
          rule_id |-> Some(e.rules[1].id)]
  ELSE evaluate([e EXCEPT !.rules = Tail(@)], q)

(***************************************************************************)
(* context.rs : ContextManager                                             *)
(***************************************************************************)
MAX_HISTORY_SIZE == 100

\* ContextManager::new(): no project, no history, no reservoir
ContextManager_new ==
  [current_project |-> None, history |-> <<>>, project_contexts |-> <<>>, reservoir |-> None]

\* Vec::insert(0, turn), then Vec::truncate(MAX_HISTORY_SIZE) when longer
Remember(history, turn) ==
  LET grown == <<turn>> \o history
  IN  IF Len(grown) > MAX_HISTORY_SIZE THEN SubSeq(grown, 1, MAX_HISTORY_SIZE) ELSE grown

\* an add_turn that never trims
add_turn_untrimmed(cm, q, resp) ==
  LET turn == [query |-> q, response |-> resp]
      known == DOMAIN cm.project_contexts
  IN  [cm EXCEPT !.history = <<turn>> \o @,
                 !.project_contexts =
                    [p \in known \cup (IF cm.current_project = None THEN {} ELSE {cm.current_project[1]}) |->
                       IF cm.current_project = Some(p)
                         THEN <<turn>> \o (IF p \in known THEN cm.project_contexts[p] ELSE <<>>)
                         ELSE cm.project_contexts[p]]]

\* ContextManager::add_turn with no reservoir: the turn goes to the front of
\* the main history and, when a project is current, to the front of that
\* project's history, which entry().or_insert_with creates when missing
add_turn(cm, q, resp) ==
  LET turn == [query |-> q, response |-> resp]
      with_main == [cm EXCEPT !.history = Remember(@, turn)]
  IN  IF cm.current_project = None THEN with_main
      ELSE LET project == cm.current_project[1]
               known == DOMAIN cm.project_contexts
           IN  [with_main EXCEPT !.project_contexts =
                  [p \in known \cup {project} |->
                     IF p = project
                       THEN Remember(IF p \in known THEN cm.project_contexts[p] ELSE <<>>, turn)
                       ELSE cm.project_contexts[p]]]

\* ContextManager::switch_project
switch_project(cm, project) == [cm EXCEPT !.current_project = Some(project)]

\* ContextManager::clear_project
clear_project(cm) == [cm EXCEPT !.current_project = None]

\* ContextManager::clear_history
clear_history(cm) == [cm EXCEPT !.history = <<>>]

\* ContextManager::recent_history: the first n turns
recent_history(cm, n) == SubSeq(cm.history, 1, Min(n, Len(cm.history)))

(***************************************************************************)
(* orchestrator.rs : Orchestrator                                          *)
(***************************************************************************)
\* truncate: the text when it has at most max bytes, else its first max bytes
\* and "..."; the slice &s[..max] panics when byte max is inside a character
truncate(s, max) ==
  IF StrLen(s) <= max THEN [status |-> "ok", value |-> s]
  ELSE LET cuts == {k \in 0..Len(s) : StrLen(SubSeq(s, 1, k)) = max}
       IN  IF cuts = {}
             THEN [status |-> "panic", msg |-> "byte index is not a char boundary"]
             ELSE [status |-> "ok",
                   value |-> SubSeq(s, 1, CHOOSE k \in cuts : TRUE) \o <<46,46,46>>]

\* estimate_tokens
estimate_tokens(text) == StrLen(text) \div 4

\* Orchestrator::process_local
process_local(q) ==
  LET shown == truncate(q.text, 50)
  IN  IF shown.status = "panic" THEN shown
      ELSE [status |-> "ok",
            \* "[LOCAL] Processed query: '"
            value |-> <<91,76,79,67,65,76,93,32,80,114,111,99,101,115,115,101,
                      100,32,113,117,101,114,121,58,32,39>>
                      \o shown.value
                      \* "' (Mock response - Phase 2 will use actual SLM)"
                      \o <<39,32,40,77,111,99,107,32,114,101,115,112,111,110,115,
                      101,32,45,32,80,104,97,115,101,32,50,32,119,105,108,108,
                      32,117,115,101,32,97,99,116,117,97,108,32,83,76,77,41>>]

\* Orchestrator::process_remote, in a build with the network feature and in
\* one without
process_remote(q, with_network) ==
  IF ~with_network
    THEN [status |-> "err",
          value |-> "Remote processing requires 'network' feature flag. This is an offline-first build."]
    ELSE LET shown == truncate(q.text, 50)
         IN  IF shown.status = "panic" THEN shown
             ELSE [status |-> "ok",
                   \* "[REMOTE] Would call API for: '"
                   value |-> <<91,82,69,77,79,84,69,93,32,87,111,117,108,100,32,99,
                      97,108,108,32,65,80,73,32,102,111,114,58,32,39>>
                             \o shown.value \o <<39>>]

\* Orchestrator::process_hybrid, in either build
process_hybrid(q, with_network) ==
  LET local_result == process_local(q)
  IN  IF local_result.status # "ok" THEN local_result
      ELSE IF with_network
        THEN LET remote_result == process_remote(q, with_network)
                 shown == truncate(q.text, 50)
             IN  IF remote_result.status # "ok" THEN remote_result
                 ELSE IF shown.status = "panic" THEN shown
                 ELSE [status |-> "ok",
                       \* "[HYBRID] Local preprocessing complete, would combine
                       \* with remote API for: '"
                       value |-> <<91,72,89,66,82,73,68,93,32,76,111,99,97,108,32,112,
                      114,101,112,114,111,99,101,115,115,105,110,103,32,99,
                      111,109,112,108,101,116,101,44,32,119,111,117,108,100,
                      32,99,111,109,98,105,110,101,32,119,105,116,104,32,114,
                      101,109,111,116,101,32,65,80,73,32,102,111,114,58,32,
                      39>>
                                 \o shown.value \o <<39>>]
      ELSE [status |-> "ok",
            \* "[HYBRID] Offline mode: using only local processing. "
            value |-> <<91,72,89,66,82,73,68,93,32,79,102,102,108,105,110,101,
                      32,109,111,100,101,58,32,117,115,105,110,103,32,111,110,
                      108,121,32,108,111,99,97,108,32,112,114,111,99,101,115,
                      115,105,110,103,46,32>>
                      \o local_result.value]

\* Orchestrator::get_model_name
get_model_name(decision) ==
  CASE decision = Local  -> "tinyllama-1.1b-q4"
    [] decision = Remote -> "claude-sonnet-4.5"
    [] decision = Hybrid -> "hybrid-local+remote"
    [] OTHER             -> "none"

\* Orchestrator::process from the router decision on: the decision is
\* executed and, when that succeeds, the turn is stored.  The snapshot taken
\* between the two is dropped unread.  o holds the fields of the Orchestrator
\* and the build's network feature.
Executed(o, q, latency_ms) ==
  Once({
    Once({
      IF response_text.status = "panic"
        THEN [status |-> "panic", msg |-> response_text.msg, context |-> o.context]
      ELSE IF response_text.status = "err"
        THEN [status |-> "err", value |-> response_text.value, context |-> o.context]
      ELSE LET answer == [ text |-> response_text.value,
                           route |-> routed.decision,
                           confidence |-> routed.confidence,
                           latency_ms |-> latency_ms,
                           metadata |-> [ model |-> Some(get_model_name(routed.decision)),
                                          tokens |-> Some(estimate_tokens(response_text.value)),
                                          cached |-> FALSE ] ]
           IN  [status |-> "ok", value |-> answer, context |-> add_turn(o.context, q, answer)]
      : response_text \in { CASE routed.decision = Local  -> process_local(q)
                              [] routed.decision = Remote -> process_remote(q, o.network)
                              [] routed.decision = Hybrid -> process_hybrid(q, o.network)
                              [] OTHER -> [status |-> "err", value |-> "Query was blocked"] } })
    : routed \in {route(o.router.config, o.router.mlp, o.router.use_mlp, <<>>, q)} })

\* a process that stores the turn of a query the expert system blocks
process_storing_blocked(o, q, latency_ms) ==
  LET checked == evaluate(o.expert, q)
  IN  IF ~checked.allowed
        THEN [status |-> "err", value |-> "Query blocked by safety rules",
              context |-> add_turn(o.context, q,
                            [ text |-> "Query blocked by safety rules", route |-> "Blocked",
                              confidence |-> FP, latency_ms |-> latency_ms,
                              metadata |-> [model |-> None, tokens |-> None,
                                            cached |-> FALSE] ])]
        ELSE Executed(o, q, latency_ms)

\* Orchestrator::process
process(o, q, latency_ms) ==
  LET checked == evaluate(o.expert, q)
  IN  IF ~checked.allowed
        THEN [status |-> "err",
              value |-> "Query blocked by safety rules: "
                          \o (IF checked.reason = None THEN "Unknown reason"
                              ELSE checked.reason[1]),
              context |-> o.context]
        ELSE Executed(o, q, latency_ms)

(***************************************************************************)
(* Inputs of the Router operations.                                        *)
(***************************************************************************)
\* prefix followed by as many 'x' as it takes to reach n bytes
Pad(prefix, n) == prefix \o Repeat(120, n - StrLen(prefix))

t_hello   == <<72,101,108,108,111>>
t_howdo   == <<72,111,119,32,100,111,32,73,32,105,116,101,114,97,116,101,32,97,32,
               72,97,115,104,77,97,112,32,105,110,32,82,117,115,116,63>>
t_theorem == <<67,97,110,32,121,111,117,32,112,114,111,118,101,32,116,104,105,115,32,
               116,104,101,111,114,101,109,32,102,111,114,109,97,108,108,121,63>>
p_helpbug == <<72,101,108,112,32,119,105,116,104,32,116,104,105,115,32,98,117,103,32>>
p_why     == <<119,104,121,63,32>>
p_PROVE   == <<80,82,79,86,69,32>>
p_accent  == <<70,105,120,32,201,84,201,32,101,114,114,111,114,32>>

Contexts   == {None, Some("project-oblibeny")}

Query(t, ctx, p, ts) ==
  [text |-> t, project_context |-> ctx, priority |-> p, timestamp |-> ts]

kw_zzz  == <<122,122,122>>

Configs ==
  { DefaultConfig,
    [DefaultConfig EXCEPT !.local_threshold = (15 * FP) \div 10],
    [DefaultConfig EXCEPT !.complex_keywords = <<>>],
    [ local_threshold  |-> (8 * FP) \div 10,
      max_local_length |-> 40,
      complex_keywords |-> << <<66,85,71>> (* "BUG" *), <<119,104,121>> (* "why" *),
                              kw_zzz, kw_zzz, kw_zzz, <<72,101,108,112>> (* "Help" *) >> ] }

\* the classifiers handed to with_mlp / set_mlp
Classifiers ==
  { MLP_new(FeatureLen, <<>>, 3),
    MLP_new(10, <<20>>, 3) }

(***************************************************************************)
(* Router operations.                                                      *)
(***************************************************************************)
NoCall == query' = None /\ result' = None /\ features' = None

\* Router::new
New ==
  /\ config' = DefaultConfig
  /\ mlp' = None
  /\ use_mlp' = FALSE
  /\ op' = [name |-> "new", arg |-> None]
  /\ NoCall
  /\ UNCHANGED <<values, idx, net, input, output, calls, esn, esn_ret, twin, twin_ret, trainer, cv, split,
                 buffer, buffer_ret, context, expert, eval, response, network>>

\* Router::with_config
WithConfig(c) ==
  /\ config' = c
  /\ mlp' = None
  /\ use_mlp' = FALSE
  /\ op' = [name |-> "with_config", arg |-> None]
  /\ NoCall
  /\ UNCHANGED <<values, idx, net, input, output, calls, esn, esn_ret, twin, twin_ret, trainer, cv, split,
                 buffer, buffer_ret, context, expert, eval, response, network>>

\* Router::with_mlp
WithMlp(m) ==
  /\ config' = DefaultConfig
  /\ mlp' = Some(m)
  /\ use_mlp' = TRUE
  /\ op' = [name |-> "with_mlp", arg |-> None]
  /\ NoCall
  /\ UNCHANGED <<values, idx, net, input, output, calls, esn, esn_ret, twin, twin_ret, trainer, cv, split,
                 buffer, buffer_ret, context, expert, eval, response, network>>

\* Router::set_mlp
SetMlp(m) ==
  /\ mlp' = Some(m)
  /\ use_mlp' = TRUE
  /\ op' = [name |-> "set_mlp", arg |-> None]
  /\ NoCall
  /\ UNCHANGED <<config, values, idx, net, input, output, calls, esn, esn_ret, twin, twin_ret, trainer, cv, split,
                 buffer, buffer_ret, context, expert, eval, response, network>>

\* Router::set_use_mlp
SetUseMlp(b) ==
  /\ use_mlp' = use_mlp_after(mlp, b)
  /\ op' = [name |-> "set_use_mlp", arg |-> Some(b)]
  /\ NoCall
  /\ UNCHANGED <<config, mlp, values, idx, net, input, output, calls, esn, esn_ret, twin, twin_ret, trainer, cv, split,
                 buffer, buffer_ret, context, expert, eval, response, network>>

\* Router::update_config
UpdateConfig(c) ==
  /\ config' = c
  /\ op' = [name |-> "update_config", arg |-> None]
  /\ NoCall
  /\ UNCHANGED <<mlp, use_mlp, values, idx, net, input, output, calls, esn, esn_ret, twin, twin_ret, trainer, cv, split,
                 buffer, buffer_ret, context, expert, eval, response, network>>

\* Router::route.  features records the vector route_with_mlp extracted and
\* handed to the classifier (None when the call took the heuristic path).
Route(q) ==
  /\ query' = Some(q)
  /\ IF takes_mlp_path(mlp, use_mlp)
       THEN LET fs == extract_features(config, q)
            IN  /\ features' = Some(fs)
                /\ result' = Some(route(config, mlp, use_mlp, fs, q))
       ELSE /\ features' = None
            /\ result' = Some(route(config, mlp, use_mlp, <<>>, q))
  /\ op' = [name |-> "route", arg |-> None]
  /\ UNCHANGED <<config, mlp, use_mlp, values, idx, net, input, output, calls, esn, esn_ret, twin, twin_ret, trainer, cv, split,
                 buffer, buffer_ret, context, expert, eval, response, network>>

\* no echo state network and no training call
\* no sensor buffer, context manager, expert system or orchestrator call
NoOrchestrator ==
  /\ buffer = None /\ buffer_ret = None /\ context = None /\ expert = None
  /\ eval = None /\ response = None /\ network = FALSE

NoTraining ==
  /\ NoOrchestrator
  /\ calls = 0
  /\ esn = None /\ esn_ret = None /\ twin = None /\ twin_ret = None
  /\ trainer = None /\ cv = None /\ split = None

NoRouter ==
  /\ values = <<>> /\ idx = None /\ net = None /\ input = <<>> /\ output = None
  /\ NoTraining

\* a session on one Router value, from Router::new()
Init ==
  /\ config = DefaultConfig
  /\ mlp = None
  /\ use_mlp = FALSE
  /\ op = [name |-> "new", arg |-> None]
  /\ query = None /\ result = None /\ features = None
  /\ NoRouter

Next ==
  \/ New
  \/ \E c \in Configs : WithConfig(c)
  \/ \E m \in Classifiers : WithMlp(m)
  \/ \E m \in Classifiers : SetMlp(m)
  \/ \E b \in BOOLEAN : SetUseMlp(b)
  \/ \E c \in Configs : UpdateConfig(c)
  \* the queries routed while the router is being reconfigured
  \/ \E q \in ({ Query(t_hello, None, 5, 1700000000),
                 Query(t_howdo, None, 5, 1700000000),
                 Query(t_theorem, None, 5, 1700000000),
                 Query(Pad(p_helpbug, 50), None, 5, 1700000000),
                 Query(Pad(p_helpbug, 50), Some("project-oblibeny"), 9, 1700000000),
                 Query(Pad(p_why, 60), Some("project-oblibeny"), 9, 86399),
                 Query(Pad(p_accent, 50), Some("project-oblibeny"), 11, 86399),
                 Query(Pad(p_PROVE, 501), None, 5, 1700000000) }) : Route(q)

Spec == Init /\ [][Next]_vars

(***************************************************************************)
(* route as a function of the router and the query: one call, on any       *)
(* router the operations above can build, with any query.                  *)
(***************************************************************************)
RouteInit ==
  /\ config \in Configs
  /\ mlp \in {None} \cup {Some(m) : m \in Classifiers}
  /\ use_mlp \in {b \in BOOLEAN : b => mlp # None}
  /\ op = [name |-> "built", arg |-> None]
  /\ query = None /\ result = None /\ features = None
  /\ NoRouter

\* Query::new and Query::with_context give priority 5 and the current time;
\* priority and timestamp are public fields the caller may set to any u8 / u64
RouteNext ==
  /\ op.name = "built"
  /\ \E q \in [ text : { <<>>, t_hello, t_howdo, t_theorem,
                         Pad(p_helpbug, 49), Pad(p_helpbug, 50), Pad(p_accent, 50),
                         Pad(p_why, 199), Pad(p_why, 200),
                         Pad(p_PROVE, 60), Pad(p_helpbug, 500), Pad(p_helpbug, 501),
                         Repeat(97, 600) },
                  project_context : Contexts,
                  priority : {5, 9},
                  timestamp : {1700000000} ]
                \cup
                [ text : {t_howdo, Pad(p_helpbug, 50)},
                  project_context : Contexts,
                  priority : {0, 11, 255},
                  timestamp : {86399} ] : Route(q)

SpecRoute == RouteInit /\ [][RouteNext]_vars

(***************************************************************************)
(* A stand-alone MLP: MLP::new, then calls on the object.                  *)
(***************************************************************************)
MaxInputSize  == 2
MaxOutputSize == 3
MaxInputLen   == 3

Inputs == UNION { [1..n -> {0 - FP, FP}] : n \in 0..MaxInputLen }

RouterIdle ==
  /\ config = DefaultConfig /\ mlp = None /\ use_mlp = FALSE
  /\ query = None /\ result = None /\ features = None

MlpInit ==
  /\ net \in { Some(MLP_new(n, h, m)) : n \in 0..MaxInputSize,
                                         h \in {<<>>, <<2>>, <<3>>, <<2, 3>>},
                                         m \in 0..MaxOutputSize }
  /\ input = <<>> /\ output = None
  /\ op = [name |-> "MLP::new", arg |-> None]
  /\ values = <<>> /\ idx = None
  /\ RouterIdle
  /\ NoTraining

\* MLP::forward(&self, input)
Forward(in) ==
  /\ input' = in
  /\ output' = Some(forward(net[1], in))
  /\ op' = [name |-> "forward", arg |-> None]
  /\ UNCHANGED <<net, values, idx, config, mlp, use_mlp, query, result, features,
                 calls, esn, esn_ret, twin, twin_ret, trainer, cv, split,
                 buffer, buffer_ret, context, expert, eval, response, network>>

SpecMlp == MlpInit /\ [][\E in \in Inputs : Forward(in)]_vars

(***************************************************************************)
(* MLP::argmax as a function of its argument.                              *)
(***************************************************************************)
MaxArgLen == 3

ArgmaxInit ==
  /\ values \in (UNION { [1..n -> {0 - FP, 0, FP, NaN}] : n \in 0..MaxArgLen }
                 \cup { <<(5 * FP) \div 10, (9 * FP) \div 10, (9 * FP) \div 10>>,
                        <<(1 * FP) \div 10, (8 * FP) \div 10, (3 * FP) \div 10>>,
                        <<5 * FP, 2 * FP, 1 * FP>> })
  /\ idx = None
  /\ op = [name |-> "input", arg |-> None]
  /\ net = None /\ input = <<>> /\ output = None
  /\ RouterIdle
  /\ NoTraining

\* MLP::argmax(values)
Argmax ==
  /\ op.name = "input"
  /\ idx' = Some(argmax(values))
  /\ op' = [name |-> "argmax", arg |-> None]
  /\ UNCHANGED <<values, net, input, output, config, mlp, use_mlp, query, result, features,
                 calls, esn, esn_ret, twin, twin_ret, trainer, cv, split,
                 buffer, buffer_ret, context, expert, eval, response, network>>

SpecArgmax == ArgmaxInit /\ [][Argmax]_vars

(***************************************************************************)
(* A stand-alone MLP under forward, backward, update and train_step.       *)
(***************************************************************************)
MaxCalls == 2

TrainInputs  == { <<FP, 0 - FP>>, <<FP>> }
TrainTargets == { one_hot(0, 3), one_hot(2, 3), <<FP, 0>> }

MlpCallsInit ==
  \* with and without hidden layers, and one with a layer of no neurons
  /\ net \in { Some(MLP_new(2, <<>>, 3)), Some(MLP_new(2, <<2>>, 3)),
                Some(MLP_new(1, <<3, 2>>, 2)), Some(MLP_new(1, <<>>, 0)) }
  /\ input = <<>> /\ output = None
  /\ op = [name |-> "MLP::new", arg |-> None]
  /\ values = <<>> /\ idx = None
  /\ RouterIdle
  /\ NoTraining

\* MLP::backward(&self, input, target)
Backward(in, tg) ==
  /\ input' = in
  /\ output' = Some(backward(net[1], in, tg))
  /\ op' = [name |-> "backward", arg |-> None]
  /\ UNCHANGED <<net, values, idx, config, mlp, use_mlp, query, result, features,
                 calls, esn, esn_ret, twin, twin_ret, trainer, cv, split,
                 buffer, buffer_ret, context, expert, eval, response, network>>

\* MLP::update(&mut self, gradients, learning_rate)
Update(g, lr) ==
  /\ calls < MaxCalls
  /\ LET r == update(net[1], g, lr)
     IN  /\ net' = Some(r.mlp)
         /\ output' = Some([status |-> r.status])
  /\ calls' = calls + 1
  /\ op' = [name |-> "update", arg |-> None]
  /\ UNCHANGED <<input, values, idx, config, mlp, use_mlp, query, result, features,
                 esn, esn_ret, twin, twin_ret, trainer, cv, split,
                 buffer, buffer_ret, context, expert, eval, response, network>>

\* MLP::train_step(&mut self, input, target, learning_rate)
TrainStep(in, tg, lr) ==
  /\ calls < MaxCalls
  /\ input' = in
  /\ LET r == train_step(net[1], in, tg, lr)
     IN  /\ net' = Some(r.mlp)
         /\ output' = Some([status |-> r.status])
  /\ calls' = calls + 1
  /\ op' = [name |-> "train_step", arg |-> None]
  /\ UNCHANGED <<values, idx, config, mlp, use_mlp, query, result, features,
                 esn, esn_ret, twin, twin_ret, trainer, cv, split,
                 buffer, buffer_ret, context, expert, eval, response, network>>

MlpCallsNext ==
  \/ \E in \in TrainInputs : Forward(in)
  \/ \E in \in TrainInputs, tg \in TrainTargets : Backward(in, tg)
  \* the gradients backward has just returned, and gradients of other shapes
  \/ \E g \in (IF op.name = "backward" /\ output[1].status = "ok"
                  THEN {output[1].gradients} ELSE {})
               \cup { <<>>, << << <<FP, FP, FP, FP>>, <<FP>>, <<FP>>, <<FP>>, <<FP>> >> >> } :
       Update(g, FP \div 2)
  \/ \E in \in TrainInputs, tg \in TrainTargets : TrainStep(in, tg, FP \div 2)

SpecMlpCalls == MlpCallsInit /\ [][MlpCallsNext]_vars

(***************************************************************************)
(* An EchoStateNetwork under update, output, train, reset and state.       *)
(***************************************************************************)
\* (input_size, reservoir_size, output_size, leak_rate, spectral_radius)
EsnParams ==
  { <<2, 3, 1, (7 * FP) \div 10, (95 * FP) \div 100>>,
    <<2, 3, 1, (3 * FP) \div 10, (95 * FP) \div 100>>,
    <<2, 3, 1, (7 * FP) \div 10, (9 * FP) \div 10>>,
    <<1, 2, 2, (7 * FP) \div 10, (95 * FP) \div 100>>,
    <<1, 2, 2, (3 * FP) \div 10, (95 * FP) \div 100>>,
    <<1, 2, 2, (7 * FP) \div 10, (9 * FP) \div 10>>,
    <<0, 2, 1, (7 * FP) \div 10, (95 * FP) \div 100>>,
    <<0, 2, 1, (3 * FP) \div 10, (95 * FP) \div 100>> }

EsnInputs == { <<>>, <<FP>>, <<FP, FP>>, <<0 - FP, FP \div 2>> }

\* collected states and targets handed to train: none, one or two samples,
\* of the sizes of the networks above and shorter
TrainingStates ==
  { <<>>, << <<FP, FP, FP>> >>, << <<FP, 0, FP>>, <<0, FP, FP \div 2>> >>, << <<FP>> >> }

TrainingTargets ==
  { <<>>, << <<FP \div 2, FP>> >>, << <<FP>>, <<0 - FP>> >> }

\* what a call returned: the outcome without the object
Returned(r) == [f \in (DOMAIN r) \ {"esn"} |-> r[f]]

EsnInit ==
  /\ op = [name |-> "start", arg |-> None]
  /\ values = <<>> /\ idx = None
  /\ net = None /\ input = <<>> /\ output = None
  /\ RouterIdle
  /\ NoTraining

\* EchoStateNetwork::new
EsnNew(p) ==
  /\ esn = None
  /\ esn' = Some(ESN_new(p[1], p[2], p[3], p[4], p[5]))
  /\ esn_ret' = None
  /\ op' = [name |-> "EchoStateNetwork::new", arg |-> None]
  /\ UNCHANGED <<config, mlp, use_mlp, query, result, features, values, idx, net, input, output,
                 calls, twin, twin_ret, trainer, cv, split,
                 buffer, buffer_ret, context, expert, eval, response, network>>

\* EchoStateNetwork::update(&mut self, input)
EsnUpdate(in) ==
  /\ esn # None
  /\ calls < MaxCalls
  /\ LET r == esn_update(esn[1], in)
     IN  /\ esn' = Some(r.esn)
         /\ esn_ret' = Some(Returned(r))
  /\ input' = in
  /\ calls' = calls + 1
  /\ op' = [name |-> "update", arg |-> None]
  /\ UNCHANGED <<config, mlp, use_mlp, query, result, features, values, idx, net, output,
                 twin, twin_ret, trainer, cv, split,
                 buffer, buffer_ret, context, expert, eval, response, network>>

\* EchoStateNetwork::output(&self)
EsnOutput ==
  /\ esn # None
  /\ esn_ret' = Some(esn_output(esn[1]))
  /\ op' = [name |-> "output", arg |-> None]
  /\ UNCHANGED <<config, mlp, use_mlp, query, result, features, values, idx, net, input, output,
                 calls, esn, twin, twin_ret, trainer, cv, split,
                 buffer, buffer_ret, context, expert, eval, response, network>>

\* EchoStateNetwork::train(&mut self, states, targets, regularization)
EsnTrain(states, targets, regularization) ==
  /\ esn # None
  /\ LET r == esn_train(esn[1], states, targets, regularization)
     IN  /\ esn' = Some(r.esn)
         /\ esn_ret' = Some(Returned(r))
  /\ op' = [name |-> "train", arg |-> Some([states |-> states, targets |-> targets])]
  /\ UNCHANGED <<config, mlp, use_mlp, query, result, features, values, idx, net, input, output,
                 calls, twin, twin_ret, trainer, cv, split,
                 buffer, buffer_ret, context, expert, eval, response, network>>

\* EchoStateNetwork::reset(&mut self)
EsnReset ==
  /\ esn # None
  /\ esn' = Some(esn_reset(esn[1]))
  /\ esn_ret' = None
  /\ op' = [name |-> "reset", arg |-> None]
  /\ UNCHANGED <<config, mlp, use_mlp, query, result, features, values, idx, net, input, output,
                 calls, twin, twin_ret, trainer, cv, split,
                 buffer, buffer_ret, context, expert, eval, response, network>>

\* EchoStateNetwork::state(&self)
EsnState ==
  /\ esn # None
  /\ esn_ret' = Some([status |-> "ok", value |-> esn_state(esn[1])])
  /\ op' = [name |-> "state", arg |-> None]
  /\ UNCHANGED <<config, mlp, use_mlp, query, result, features, values, idx, net, input, output,
                 calls, esn, twin, twin_ret, trainer, cv, split,
                 buffer, buffer_ret, context, expert, eval, response, network>>

EsnNext ==
  \/ \E p \in EsnParams : EsnNew(p)
  \/ \E in \in EsnInputs : EsnUpdate(in)
  \/ EsnOutput
  \/ \E s \in TrainingStates, t \in TrainingTargets : EsnTrain(s, t, FP \div 1000)
  \/ EsnReset
  \/ EsnState

SpecEsn == EsnInit /\ [][EsnNext]_vars

(***************************************************************************)
(* Two EchoStateNetworks built with the same arguments and handed the same *)
(* inputs.                                                                 *)
(***************************************************************************)
\* EchoStateNetwork::new for the second object, with the arguments of the first
TwinNew ==
  /\ esn # None /\ twin = None
  /\ calls = 0
  /\ twin' = Some(ESN_new(esn[1].input_size, esn[1].reservoir_size, esn[1].output_size,
                          esn[1].leak_rate, esn[1].spectral_radius))
  /\ twin_ret' = None
  /\ op' = [name |-> "EchoStateNetwork::new", arg |-> None]
  /\ UNCHANGED <<config, mlp, use_mlp, query, result, features, values, idx, net, input, output,
                 calls, esn, esn_ret, trainer, cv, split,
                 buffer, buffer_ret, context, expert, eval, response, network>>

\* update(input) on the one object and update(input) on the other
UpdateBoth(in) ==
  /\ esn # None /\ twin # None
  /\ calls < MaxCalls
  /\ LET r == esn_update(esn[1], in)
         t == esn_update(twin[1], in)
     IN  /\ esn' = Some(r.esn)
         /\ esn_ret' = Some(Returned(r))
         /\ twin' = Some(t.esn)
         /\ twin_ret' = Some(Returned(t))
  /\ input' = in
  /\ calls' = calls + 1
  /\ op' = [name |-> "update", arg |-> None]
  /\ UNCHANGED <<config, mlp, use_mlp, query, result, features, values, idx, net, output,
                 trainer, cv, split,
                 buffer, buffer_ret, context, expert, eval, response, network>>

TwinNext ==
  \/ \E p \in EsnParams : EsnNew(p)
  \/ TwinNew
  \/ \E in \in EsnInputs : UpdateBoth(in)

SpecTwin == EsnInit /\ [][TwinNext]_vars

(***************************************************************************)
(* An EchoStateNetwork that is used, saved and loaded; the original and    *)
(* the loaded object are then handed the same inputs.                      *)
(***************************************************************************)
\* serde_json::to_string(&esn), then serde_json::from_str
Load ==
  /\ esn # None /\ twin = None
  /\ twin' = Some(from_json(to_json(esn[1])))
  /\ twin_ret' = None
  /\ op' = [name |-> "from_str", arg |-> None]
  /\ UNCHANGED <<config, mlp, use_mlp, query, result, features, values, idx, net, input, output,
                 calls, esn, esn_ret, trainer, cv, split,
                 buffer, buffer_ret, context, expert, eval, response, network>>

LoadNext ==
  \/ \E p \in EsnParams : EsnNew(p)
  \/ twin = None /\ \E in \in EsnInputs : EsnUpdate(in)
  \/ twin = None /\ \E s \in TrainingStates, t \in TrainingTargets :
                      EsnTrain(s, t, FP \div 1000)
  \/ Load
  \/ \E in \in EsnInputs : UpdateBoth(in)

SpecLoad == EsnInit /\ [][LoadNext]_vars

(***************************************************************************)
(* One call of MLPTrainer::train, an epoch at a step.                      *)
(***************************************************************************)
MaxEpochs   == 6
MaxPatience == 2

d_pair    == [features |-> << <<0 - FP, FP>>, <<FP, FP>> >>, labels |-> <<0, 0>>]
d_mixed   == [features |-> << <<0 - FP, FP>>, <<0, FP>>, <<FP, 0>> >>, labels |-> <<0, 1, 2>>]

Templates == { MLP_new(2, <<>>, 3), MLP_new(2, <<2>>, 3) }

TrainerInit ==
  /\ trainer \in
       { Some(train_begin(c, m, r[1], r[2])) :
           c \in [ learning_rate : {FP \div 10},
                   epochs        : {0, 2, MaxEpochs},
                   batch_size    : {0, 1, 2},
                   patience      : 0..MaxPatience,
                   l2_reg        : {FP \div 1000} ],
           m \in Templates,
           \* (train_data, val_data): with and without validation data, with no
           \* examples, with a label outside 0..2, with too short a feature vector
           r \in { <<d_pair, Some(d_pair)>>, <<d_mixed, Some(d_pair)>>,
                   <<d_mixed, Some(d_mixed)>>, <<d_pair, None>>,
                   <<d_pair, Some([features |-> <<>>, labels |-> <<>>])>>,
                   <<[features |-> <<>>, labels |-> <<>>], Some(d_pair)>>,
                   <<[features |-> << <<FP, FP>> >>, labels |-> <<3>>], Some(d_pair)>>,
                   <<d_pair, Some([features |-> << <<FP>> >>, labels |-> <<1>>])>> } }
  /\ op = [name |-> "train", arg |-> None]
  /\ calls = 0
  /\ esn = None /\ esn_ret = None /\ twin = None /\ twin_ret = None
  /\ cv = None /\ split = None
  /\ NoOrchestrator
  /\ values = <<>> /\ idx = None
  /\ net = None /\ input = <<>> /\ output = None
  /\ RouterIdle

\* one iteration of the for loop
TrainEpoch ==
  /\ trainer # None /\ InLoop(trainer[1])
  /\ trainer' = Some(train_epoch(trainer[1]))
  /\ op' = [name |-> "epoch", arg |-> None]
  /\ UNCHANGED <<config, mlp, use_mlp, query, result, features, values, idx, net, input, output,
                 calls, esn, esn_ret, twin, twin_ret, cv, split,
                 buffer, buffer_ret, context, expert, eval, response, network>>

\* the final evaluation and the return
TrainFinish ==
  /\ trainer # None /\ AfterLoop(trainer[1])
  /\ trainer' = Some(train_finish(trainer[1]))
  /\ op' = [name |-> "return", arg |-> None]
  /\ UNCHANGED <<config, mlp, use_mlp, query, result, features, values, idx, net, input, output,
                 calls, esn, esn_ret, twin, twin_ret, cv, split,
                 buffer, buffer_ret, context, expert, eval, response, network>>

SpecTrainer == TrainerInit /\ [][TrainEpoch \/ TrainFinish]_vars

(***************************************************************************)
(* cross_validate and train_test_split as functions of their arguments.    *)
(***************************************************************************)
MaxExamples == 4
MaxFolds    == 3

\* the data sets of 0..MaxExamples examples; the examples are pairwise
\* different
DataSets ==
  { [ features |-> [i \in 1..n |-> <<IF i % 2 = 1 THEN 0 - FP ELSE FP,
                                     (((i - 1) % 3) * FP) \div 2>>],
      labels   |-> [i \in 1..n |-> (i - 1) % 3] ] : n \in 0..MaxExamples }

CvInit ==
  /\ cv \in [ config   : [ learning_rate : {FP \div 10}, epochs : {1, 2},
                           batch_size : {0}, patience : {1}, l2_reg : {FP \div 1000} ],
              template : Templates,
              data     : DataSets,
              k_folds  : 0..MaxFolds,
              ret      : {None} ]
  /\ op = [name |-> "input", arg |-> None]
  /\ trainer = None /\ split = None
  /\ NoOrchestrator
  /\ calls = 0
  /\ esn = None /\ esn_ret = None /\ twin = None /\ twin_ret = None
  /\ values = <<>> /\ idx = None
  /\ net = None /\ input = <<>> /\ output = None
  /\ RouterIdle

\* MLPTrainer::cross_validate(&self, mlp_template, data, k_folds)
CrossValidate ==
  /\ cv # None /\ cv.ret = None
  /\ cv' = [cv EXCEPT !.ret = Some(cross_validate(cv.config, cv.template, cv.data, cv.k_folds))]
  /\ op' = [name |-> "cross_validate", arg |-> None]
  /\ UNCHANGED <<config, mlp, use_mlp, query, result, features, values, idx, net, input, output,
                 calls, esn, esn_ret, twin, twin_ret, trainer, split,
                 buffer, buffer_ret, context, expert, eval, response, network>>

SpecCv == CvInit /\ [][CrossValidate]_vars

SplitInit ==
  /\ split \in [ data : DataSets,
                 \* in [0, 1], above 1 and below 0
                 train_ratio : { 0, FP \div 4, FP \div 2, (7 * FP) \div 10, FP,
                                 (3 * FP) \div 2, 0 - (FP \div 2) },
                 ret : {None} ]
  /\ op = [name |-> "input", arg |-> None]
  /\ trainer = None /\ cv = None
  /\ NoOrchestrator
  /\ calls = 0
  /\ esn = None /\ esn_ret = None /\ twin = None /\ twin_ret = None
  /\ values = <<>> /\ idx = None
  /\ net = None /\ input = <<>> /\ output = None
  /\ RouterIdle

\* RouterTrainingData::train_test_split(&self, train_ratio)
TrainTestSplit ==
  LET \* the orders indices.shuffle(&mut thread_rng()) can leave 0..n-1 in
      Shuffles(n) ==
        { s \in [1..n -> 0..(n - 1)] : \A i \in 1..n : \A j \in 1..n : s[i] = s[j] => i = j }
  IN  /\ split # None /\ split.ret = None
      /\ \E indices \in Shuffles(data_len(split.data)) :
           split' = [split EXCEPT !.ret = Some(train_test_split(split.data, split.train_ratio, indices))]
      /\ op' = [name |-> "train_test_split", arg |-> None]
      /\ UNCHANGED <<config, mlp, use_mlp, query, result, features, values, idx, net, input, output,
                     calls, esn, esn_ret, twin, twin_ret, trainer, cv,
                     buffer, buffer_ret, context, expert, eval, response, network>>

SpecSplit == SplitInit /\ [][TrainTestSplit]_vars

(***************************************************************************)
(* An EchoStateNetwork handed to ReservoirTrainer::train, fresh or after   *)
(* updates.                                                                *)
(***************************************************************************)
\* ReservoirTrainer::train(&self, esn, inputs, targets) with lambda = 0.001;
\* op.arg keeps the arguments and the state the encoder had at the call
ReservoirTrain(inputs, targets) ==
  /\ esn # None
  /\ calls < MaxCalls
  /\ LET r == reservoir_train(FP \div 1000, esn[1], inputs, targets)
     IN  /\ esn' = Some(r.esn)
         /\ esn_ret' = Some(Returned(r))
  /\ calls' = calls + 1
  /\ op' = [name |-> "ReservoirTrainer::train",
            arg |-> Some([inputs |-> inputs, targets |-> targets, state |-> esn[1].state])]
  /\ UNCHANGED <<config, mlp, use_mlp, query, result, features, values, idx, net, input,
                 output, twin, twin_ret, trainer, cv, split,
                 buffer, buffer_ret, context, expert, eval, response, network>>

SpecReservoir ==
  EsnInit /\ [][ \/ \E p \in EsnParams : EsnNew(p)
                 \/ \E in \in EsnInputs : EsnUpdate(in)
                 \* sequences of no, one and two inputs; target sequences of
                 \* the same and of other lengths, with short target vectors
                 \/ \E ins \in UNION { [1..n -> EsnInputs] : n \in 0..2 },
                       tgs \in TrainingTargets \cup { << <<>>, <<FP>> >>,
                                                      << <<FP, 0>>, <<0, FP>> >> } :
                      ReservoirTrain(ins, tgs) ]_vars

(***************************************************************************)
(* A SensorBuffer under push and clear.                                    *)
(***************************************************************************)
MaxBufferSize == 3

\* no Router, MLP, EchoStateNetwork or trainer object
NoLearner ==
  /\ RouterIdle
  /\ values = <<>> /\ idx = None /\ net = None /\ input = <<>> /\ output = None
  /\ calls = 0
  /\ esn = None /\ esn_ret = None /\ twin = None /\ twin_ret = None
  /\ trainer = None /\ cv = None /\ split = None

\* SensorReading::new(SensorType::Light, vec![lux]); the timestamp is left out
Readings == { [sensor_type |-> "Light", values |-> <<lux * FP>>] : lux \in {100, 200, 300, 400} }

BufferInit ==
  /\ buffer \in { Some(SensorBuffer_new(m)) : m \in 0..MaxBufferSize }
  /\ buffer_ret = None
  /\ op = [name |-> "SensorBuffer::new", arg |-> None]
  /\ context = None /\ expert = None /\ eval = None /\ response = None /\ network = FALSE
  /\ NoLearner

Push(reading) ==
  /\ LET r == push(buffer[1], reading)
     IN  /\ buffer' = Some(r.buffer)
         /\ buffer_ret' = Some(r.status)
  /\ op' = [name |-> "push", arg |-> Some(reading)]
  /\ UNCHANGED <<config, mlp, use_mlp, query, result, features, values, idx, net, input, output,
                 calls, esn, esn_ret, twin, twin_ret, trainer, cv, split,
                 context, expert, eval, response, network>>

Clear ==
  /\ buffer' = Some(clear(buffer[1]))
  /\ buffer_ret' = Some("ok")
  /\ op' = [name |-> "clear", arg |-> None]
  /\ UNCHANGED <<config, mlp, use_mlp, query, result, features, values, idx, net, input, output,
                 calls, esn, esn_ret, twin, twin_ret, trainer, cv, split,
                 context, expert, eval, response, network>>

SpecBuffer == BufferInit /\ [][(\E reading \in Readings : Push(reading)) \/ Clear]_vars

(***************************************************************************)
(* An ExpertSystem under new, with_rules, add_rule and evaluate.           *)
(***************************************************************************)
MaxRules == 3

\* rules handed to with_rules and add_rule
CustomRules ==
  { Rule("AUDIT_001", "Warn on harmful wording", "contains_harmful_request", "Warn"),
    Rule("AUDIT_002", "Log potential API keys", "contains_api_key_pattern", "Log"),
    default_rules[2] }

\* Query::new(text)
ExpertQueries ==
  { Query(t, None, 5, 0) :
      t \in { \* "How do I write a for loop in Rust?"
              <<72,111,119,32,100,111,32,73,32,119,114,105,116,101,32,97,32,102,111,114,32,
                108,111,111,112,32,105,110,32,82,117,115,116,63>>,
              \* "Here's my api_key=sk-1234567890"
              <<72,101,114,101,39,115,32,109,121,32,97,112,105,95,107,101,121,61,115,107,45,
                49,50,51,52,53,54,55,56,57,48>>,
              \* "my PASSWORD=hunter2"
              <<109,121,32,80,65,83,83,87,79,82,68,61,104,117,110,116,101,114,50>>,
              \* "the secret garden"
              <<116,104,101,32,115,101,99,114,101,116,32,103,97,114,100,101,110>>,
              \* "how to hack a server"
              <<104,111,119,32,116,111,32,104,97,99,107,32,97,32,115,101,114,118,101,114>>,
              \* "Token=1 passwd=2 steal it"
              <<84,111,107,101,110,61,49,32,112,97,115,115,119,100,61,50,32,115,116,101,97,
                108,32,105,116>>,
              \* "Tell me a story xxx..." of 5001 bytes
              Pad(<<84,101,108,108,32,109,101,32,97,32,115,116,111,114,121,32>>, 5001) } }

\* ExpertSystem::new()
ExpertInit ==
  /\ expert = Some([rules |-> default_rules])
  /\ eval = None
  /\ op = [name |-> "ExpertSystem::new", arg |-> None]
  /\ buffer = None /\ buffer_ret = None /\ context = None /\ response = None /\ network = FALSE
  /\ NoLearner

\* ExpertSystem::with_rules
WithRules(rules) ==
  /\ expert' = Some([rules |-> rules])
  /\ eval' = None
  /\ op' = [name |-> "with_rules", arg |-> None]
  /\ UNCHANGED <<config, mlp, use_mlp, query, result, features, values, idx, net, input, output,
                 calls, esn, esn_ret, twin, twin_ret, trainer, cv, split,
                 buffer, buffer_ret, context, response, network>>

\* ExpertSystem::add_rule
AddRule(rule) ==
  /\ Len(expert[1].rules) < MaxRules
  /\ expert' = Some([expert[1] EXCEPT !.rules = Append(@, rule)])
  /\ eval' = None
  /\ op' = [name |-> "add_rule", arg |-> None]
  /\ UNCHANGED <<config, mlp, use_mlp, query, result, features, values, idx, net, input, output,
                 calls, esn, esn_ret, twin, twin_ret, trainer, cv, split,
                 buffer, buffer_ret, context, response, network>>

\* ExpertSystem::evaluate
Evaluate(q) ==
  /\ eval' = Some(evaluate(expert[1], q))
  /\ op' = [name |-> "evaluate", arg |-> Some(q)]
  /\ UNCHANGED <<config, mlp, use_mlp, query, result, features, values, idx, net, input, output,
                 calls, esn, esn_ret, twin, twin_ret, trainer, cv, split,
                 buffer, buffer_ret, context, expert, response, network>>

SpecExpert ==
  ExpertInit /\ [][ \/ \E rule \in CustomRules \cup {<<>>} :
                         WithRules(IF rule = <<>> THEN <<>> ELSE <<rule>>)
                    \/ \E rule \in CustomRules : AddRule(rule)
                    \/ \E q \in ExpertQueries : Evaluate(q) ]_vars

(***************************************************************************)
(* A ContextManager under add_turn, switch_project, clear_project and      *)
(* clear_history.  The i-th add_turn call is handed "query i" and          *)
(* "response i", as the loops of the tests do.                             *)
(***************************************************************************)
MaxTurns == 102

\* format!("{}", n)
RECURSIVE to_string(_)
to_string(n) == IF n < 10 THEN <<48 + n>> ELSE Append(to_string(n \div 10), 48 + (n % 10))

\* Query::new(format!("query {}", i))
NumberedQuery(i) == Query(<<113,117,101,114,121,32>> \o to_string(i), None, 5, 0)

\* tests::create_test_response(&format!("response {}", i))
create_test_response(i) ==
  [ text |-> <<114,101,115,112,111,110,115,101,32>> \o to_string(i),
    route |-> Local, confidence |-> (9 * FP) \div 10, latency_ms |-> 100,
    metadata |-> [model |-> Some("test-model"), tokens |-> Some(50), cached |-> FALSE] ]

ContextInit ==
  /\ context = Some(ContextManager_new)
  /\ op = [name |-> "ContextManager::new", arg |-> None]
  /\ buffer = None /\ buffer_ret = None /\ expert = None /\ eval = None
  /\ response = None /\ network = FALSE
  /\ NoLearner

\* the project and history calls are made before the first turn and once the
\* history has been filled
Managing == calls = 0 \/ calls >= MAX_HISTORY_SIZE

AddTurn ==
  /\ calls < MaxTurns
  /\ context' = Some(add_turn(context[1], NumberedQuery(calls), create_test_response(calls)))
  /\ calls' = calls + 1
  /\ op' = [name |-> "add_turn", arg |-> Some(calls)]
  /\ UNCHANGED <<config, mlp, use_mlp, query, result, features, values, idx, net, input, output,
                 esn, esn_ret, twin, twin_ret, trainer, cv, split,
                 buffer, buffer_ret, expert, eval, response, network>>

SwitchProject(project) ==
  /\ Managing
  /\ context' = Some(switch_project(context[1], project))
  /\ op' = [name |-> "switch_project", arg |-> Some(project)]
  /\ UNCHANGED <<config, mlp, use_mlp, query, result, features, values, idx, net, input, output,
                 calls, esn, esn_ret, twin, twin_ret, trainer, cv, split,
                 buffer, buffer_ret, expert, eval, response, network>>

ClearProject ==
  /\ Managing
  /\ context' = Some(clear_project(context[1]))
  /\ op' = [name |-> "clear_project", arg |-> None]
  /\ UNCHANGED <<config, mlp, use_mlp, query, result, features, values, idx, net, input, output,
                 calls, esn, esn_ret, twin, twin_ret, trainer, cv, split,
                 buffer, buffer_ret, expert, eval, response, network>>

ClearHistory ==
  /\ Managing
  /\ context' = Some(clear_history(context[1]))
  /\ op' = [name |-> "clear_history", arg |-> None]
  /\ UNCHANGED <<config, mlp, use_mlp, query, result, features, values, idx, net, input, output,
                 calls, esn, esn_ret, twin, twin_ret, trainer, cv, split,
                 buffer, buffer_ret, expert, eval, response, network>>

SpecContext ==
  ContextInit /\ [][ \/ AddTurn
                     \/ \E project \in {"project-1", "project-2"} : SwitchProject(project)
                     \/ ClearProject
                     \/ ClearHistory ]_vars

(***************************************************************************)
(* An Orchestrator under process, switch_project and clear_history, in a   *)
(* build with the network feature and in one without.                      *)
(***************************************************************************)
\* the queries handed to process: short ones, one the expert system blocks,
\* one the router sends to Remote, one it sends to Hybrid, and one whose 50th
\* byte is inside a character
OrchestratorQueries ==
  { Query(t, None, 5, 0) :
      t \in { \* "Hello, how are you?"
              <<72,101,108,108,111,44,32,104,111,119,32,97,114,101,32,121,
                111,117,63>>,
              \* "Here is my api_key=secret123"
              <<72,101,114,101,32,105,115,32,109,121,32,97,112,105,95,107,
                101,121,61,115,101,99,114,101,116,49,50,51>>,
              \* "Can you prove this theorem using formal verification?"
              <<67,97,110,32,121,111,117,32,112,114,111,118,101,32,116,104,
                105,115,32,116,104,101,111,114,101,109,32,117,115,105,110,103,
                32,102,111,114,109,97,108,32,118,101,114,105,102,105,99,97,
                116,105,111,110,63>>,
              \* "First query"
              <<70,105,114,115,116,32,113,117,101,114,121>>,
              \* "Second query"
              <<83,101,99,111,110,100,32,113,117,101,114,121>>,
              Repeat(120, 49) \o <<233, 120>> } }
  \cup { \* "Refactor the storage layer of the project and tidy it up"
         Query(<<82,101,102,97,99,116,111,114,32,116,104,101,32,115,116,111,
                114,97,103,101,32,108,97,121,101,114,32,111,102,32,116,104,
                101,32,112,114,111,106,101,99,116,32,97,110,100,32,116,105,
                100,121,32,105,116,32,117,112>>,
               Some("project-1"), 9, 0) }

\* Orchestrator::new()
OrchestratorInit ==
  /\ expert = Some([rules |-> default_rules])
  /\ context = Some(ContextManager_new)
  /\ network \in BOOLEAN
  /\ eval = None /\ response = None
  /\ op = [name |-> "Orchestrator::new", arg |-> None]
  /\ buffer = None /\ buffer_ret = None
  /\ NoLearner

\* Orchestrator::process; latency_ms is what the clock measured
Process(q, latency_ms) ==
  /\ calls < MaxCalls
  /\ \E r \in { process([ router |-> [config |-> config, mlp |-> mlp, use_mlp |-> use_mlp],
                           expert |-> expert[1], context |-> context[1], network |-> network ],
                         q, latency_ms) } :
         /\ context' = Some(r.context)
         /\ response' = Some([status |-> r.status,
                              value |-> IF r.status = "panic" THEN r.msg ELSE r.value])
  /\ calls' = calls + 1
  /\ op' = [name |-> "process", arg |-> Some(q)]
  /\ UNCHANGED <<config, mlp, use_mlp, query, result, features, values, idx, net, input, output,
                 esn, esn_ret, twin, twin_ret, trainer, cv, split,
                 buffer, buffer_ret, expert, eval, network>>

SpecOrchestrator ==
  OrchestratorInit /\ [][ \/ \E q \in OrchestratorQueries, latency_ms \in {0, 1} :
                               Process(q, latency_ms)
                          \/ \E project \in {"project-1"} : SwitchProject(project)
                          \/ ClearHistory ]_vars

(***************************************************************************)
(* Properties of routing.                                                  *)
(***************************************************************************)
Routed == op.name = "route"
ClassifierInUse == use_mlp /\ mlp # None

\* the six rules of the cascade, in the order the specification lists them
RuleMatches(k, cfg, q) ==
  CASE k = 1 -> StrLen(q.text) > cfg.max_local_length
    [] k = 2 -> \E i \in 1..Len(cfg.complex_keywords) :
                  contains(to_lowercase(q.text), to_lowercase(cfg.complex_keywords[i]))
    [] k = 3 -> StrLen(q.text) < 50
    [] k = 4 -> contains_char(q.text, QuestionMark) /\ StrLen(q.text) < 200
    [] k = 5 -> q.priority > 7 /\ q.project_context # None
    [] k = 6 -> TRUE

RuleOutcome(k, cfg) ==
  CASE k = 1 -> Ok(Remote, (9 * FP) \div 10)
    [] k = 2 -> Ok(Remote, (85 * FP) \div 100)
    [] k = 3 -> Ok(Local, (8 * FP) \div 10)
    [] k = 4 -> Ok(Local, (75 * FP) \div 100)
    [] k = 5 -> Ok(Hybrid, (7 * FP) \div 10)
    [] k = 6 -> Ok(Local, cfg.local_threshold)

FirstRule(cfg, q) ==
  CHOOSE k \in 1..6 : RuleMatches(k, cfg, q) /\ \A j \in 1..(k - 1) : ~RuleMatches(j, cfg, q)

NoKeywordPriority9Context(q) ==
  /\ q.priority = 9 /\ q.project_context # None
  /\ ~RuleMatches(2, DefaultConfig, q)
  /\ StrLen(q.text) >= 50 /\ StrLen(q.text) < 500

\* C2 as stated: heuristic routing, default configuration, priority 9, a
\* project context, no keyword, length in [50,500): Hybrid with 0.7.
C2_AsStated ==
  (Routed /\ ~ClassifierInUse /\ config = DefaultConfig
     /\ NoKeywordPriority9Context(query[1]))
  => result[1] = Ok(Hybrid, (7 * FP) \div 10)

\* C2 amended: the same, for the queries that are not a question shorter
\* than 200 bytes (those are routed Local with 0.75 by the earlier rule).
C2_HybridUnlessShortQuestion ==
  (Routed /\ ~ClassifierInUse /\ config = DefaultConfig
     /\ NoKeywordPriority9Context(query[1])
     /\ ~(contains_char(query[1].text, QuestionMark) /\ StrLen(query[1].text) < 200))
  => result[1] = Ok(Hybrid, (7 * FP) \div 10)

\* C2 witness: such a query was routed Hybrid.
C2_Witness ==
  /\ Routed /\ ~ClassifierInUse /\ config = DefaultConfig
  /\ NoKeywordPriority9Context(query[1])
  /\ result[1] = Ok(Hybrid, (7 * FP) \div 10)

\* C3: the use-classifier flag is set only if a classifier is attached.
C3_FlagImpliesClassifier == use_mlp => mlp # None

\* C3 witness: set_use_mlp(true) was called on a router with no classifier
\* and the flag is false.
C3_Witness ==
  /\ op = [name |-> "set_use_mlp", arg |-> Some(TRUE)]
  /\ mlp = None /\ ~use_mlp

\* the classifier path as the specification describes it
ClassifierOutcome(m, cfg, q) ==
  LET logits == forward(m, extract_features(cfg, q))
      probs  == softmax(logits.value)
      best   == argmax(probs).value
  IN  IF logits.status = "panic" THEN logits
      ELSE [ status     |-> "ok",
             decision   |-> IF best = 1 THEN Remote ELSE IF best = 2 THEN Hybrid ELSE Local,
             confidence |-> probs[best + 1] ]

\* C4: route takes the classifier path exactly when a classifier is attached
\* and enabled, and returns the heuristic cascade's result otherwise.
C4_PathSelection ==
  Routed =>
    IF mlp # None /\ use_mlp
      THEN /\ features = Some(extract_features(config, query[1]))
           /\ result[1] = ClassifierOutcome(mlp[1], config, query[1])
      ELSE /\ features = None
           /\ result[1] = route_heuristic(config, query[1])

\* C4 witness: a router that has a classifier, disabled by set_use_mlp(false),
\* routed a query by the cascade.
C4_Witness ==
  /\ Routed /\ mlp # None /\ ~use_mlp
  /\ result[1] = route_heuristic(config, query[1])

\* C5: route, called right after set_use_mlp(true) on a router with no
\* classifier, reports an error instead of a routing decision.
C5_ExplicitError ==
  [][ (op = [name |-> "set_use_mlp", arg |-> Some(TRUE)] /\ mlp = None
        /\ op'.name = "route")
      => result'[1].status = "error" ]_vars

\* C6: the confidence route returns lies in [0,1].
C6_ConfidenceInUnitInterval ==
  (Routed /\ result[1].status = "ok") =>
     (result[1].confidence >= 0 /\ result[1].confidence <= FP)

\* C7: the feature vector handed to the classifier has the classifier's
\* input size, so classifier routing never fails on a dimension mismatch.
C7_FeatureLengthMatchesClassifier ==
  (Routed /\ features # None) =>
     (Len(features[1]) = mlp[1].input_size /\ result[1] # MismatchPanic)

\* C8: extract_features yields 384 values, each in [0,1].
C8_FeaturesInUnitInterval ==
  features # None =>
     /\ Len(features[1]) = 384
     /\ \A i \in 1..Len(features[1]) : features[1][i] >= 0 /\ features[1][i] <= FP

(***************************************************************************)
(* Properties of the MLP.                                                  *)
(***************************************************************************)
\* C9: forward returns output_size values for an input of input_size values,
\* fails with the input-size mismatch for any other length, and leaves the
\* weights and biases as they were in both cases.
C9_ForwardLengthOrMismatch ==
  [][ op'.name = "forward" =>
        /\ net' = net
        /\ IF Len(input') = net[1].input_size
             THEN /\ output'[1].status = "ok"
                  /\ Len(output'[1].value) = net[1].output_size
             ELSE output'[1] = MismatchPanic ]_vars

\* C9 witness: a network with hidden layers returned output_size values.
C9_Witness ==
  /\ op.name = "forward"
  /\ net[1].hidden_sizes # <<>> /\ net[1].input_size > 0 /\ net[1].output_size > 0
  /\ Len(input) = net[1].input_size
  /\ output[1].status = "ok" /\ Len(output[1].value) = net[1].output_size

Comparable(vs) == vs # <<>> /\ \A i \in 1..Len(vs) : vs[i] # NaN

\* C10: argmax returns the index of a maximum entry, the highest index among
\* the entries that tie for the maximum (entries that compare: no NaN).
C10_ArgmaxLastMaximum ==
  /\ (op.name = "argmax" /\ Comparable(values)) =>
       /\ idx[1].status = "ok"
       /\ idx[1].value \in 0..(Len(values) - 1)
       /\ \A j \in 1..Len(values) : values[j] <= values[idx[1].value + 1]
       /\ \A j \in (idx[1].value + 2)..Len(values) : values[j] < values[idx[1].value + 1]
  /\ (op.name = "argmax"
        /\ values = <<(5 * FP) \div 10, (9 * FP) \div 10, (9 * FP) \div 10>>)
       => idx[1].value = 2
  /\ (op.name = "argmax"
        /\ values = <<(1 * FP) \div 10, (8 * FP) \div 10, (3 * FP) \div 10>>)
       => idx[1].value = 1
  /\ (op.name = "argmax" /\ values = <<5 * FP, 2 * FP, 1 * FP>>)
       => idx[1].value = 0

\* C10 witness: argmax([0.5, 0.9, 0.9]) returned 2.
C10_Witness ==
  /\ op.name = "argmax"
  /\ values = <<(5 * FP) \div 10, (9 * FP) \div 10, (9 * FP) \div 10>>
  /\ idx = Some([status |-> "ok", value |-> 2])

(***************************************************************************)
(* Properties of the MLP under training.                                   *)
(***************************************************************************)
\* weights and biases have the shapes the layer-size list prescribes
ShapesConsistent(m) ==
  LET ls == LayerSizes(m.input_size, m.hidden_sizes, m.output_size)
  IN  /\ Len(m.weights) = Len(ls) - 1
      /\ Len(m.biases) = Len(ls) - 1
      /\ \A k \in 1..(Len(ls) - 1) :
           /\ Len(m.weights[k]) = ls[k + 1]
           /\ \A i \in 1..Len(m.weights[k]) : Len(m.weights[k][i]) = ls[k]
           /\ Len(m.biases[k]) = ls[k + 1]

\* C11: through forward, backward, update and train_step the layer sizes
\* stay what new() was given, and every weight matrix and bias vector keeps
\* the shape the layer sizes prescribe.
C11_StructureFixed ==
  /\ [](net # None => ShapesConsistent(net[1]))
  /\ [][ (net # None /\ net' # None) =>
           /\ net'[1].input_size = net[1].input_size
           /\ net'[1].hidden_sizes = net[1].hidden_sizes
           /\ net'[1].output_size = net[1].output_size ]_vars

\* C11 witness: update changed the values of a network with hidden layers.
C11_Witness ==
  /\ op.name = "update" /\ output = Some([status |-> "ok"])
  /\ net[1].hidden_sizes # <<>>
  /\ net[1].weights # MLP_new(net[1].input_size, net[1].hidden_sizes, net[1].output_size).weights
  /\ ShapesConsistent(net[1])

(***************************************************************************)
(* Properties of the EchoStateNetwork.                                     *)
(***************************************************************************)
\* the fixed matrices of e are those new() computes from e's arguments
WeightsAsBuilt(e) ==
  LET built == ESN_new(e.input_size, e.reservoir_size, e.output_size,
                       e.leak_rate, e.spectral_radius)
  IN  /\ e.reservoir_weights = built.reservoir_weights
      /\ e.input_weights = built.input_weights

AllZero(v) == \A i \in 1..Len(v) : v[i] = 0

\* C12: the state vector has reservoir_size entries, the reservoir and input
\* matrices are those of construction, and the output weights change only
\* across a call to train.
C12_FixedReservoir ==
  /\ [](esn # None =>
          /\ Len(esn[1].state) = esn[1].reservoir_size
          /\ WeightsAsBuilt(esn[1]))
  /\ [][ (esn # None /\ op'.name # "train") =>
           esn'[1].output_weights = esn[1].output_weights ]_vars

\* C12 witness: after a training and two updates the state is not zero and
\* the output weights are the trained ones.
C12_Witness ==
  /\ esn # None /\ op.name = "update" /\ calls = 2
  /\ esn_ret[1].status = "ok"
  /\ ~AllZero(esn[1].state)
  /\ \E i \in 1..Len(esn[1].output_weights) : ~AllZero(esn[1].output_weights[i])
  /\ \E i \in 1..Len(esn[1].reservoir_weights) : ~AllZero(esn[1].reservoir_weights[i])

\* C13: reset zeroes every entry of the state and changes nothing else.
C13_ResetZeroesStateOnly ==
  [][ op'.name = "reset" =>
        /\ AllZero(esn'[1].state)
        /\ esn'[1] = [esn[1] EXCEPT !.state = esn'[1].state]
        /\ Len(esn'[1].state) = Len(esn[1].state) ]_vars

\* C13 witness: reset of a network that was updated and trained.
C13_Witness ==
  /\ esn # None /\ op.name = "reset" /\ calls > 0
  /\ esn[1].reservoir_size > 0 /\ AllZero(esn[1].state)
  /\ \E i \in 1..Len(esn[1].output_weights) : ~AllZero(esn[1].output_weights[i])

\* C14: update with an input of another length than input_size fails with
\* the input-size mismatch and leaves the object as it was.
C14_UpdateMismatchNoMutation ==
  [][ (op'.name = "update" /\ Len(input') # esn[1].input_size) =>
        /\ esn_ret'[1].status = "panic"
        /\ esn_ret'[1].msg = MismatchPanic.msg
        /\ esn' = esn ]_vars

\* C14 witness: a failed update after a successful one; the state the first
\* one produced is still there.
C14_Witness ==
  /\ esn # None /\ op.name = "update" /\ calls = 2
  /\ Len(input) # esn[1].input_size
  /\ esn_ret[1].status = "panic"
  /\ ~AllZero(esn[1].state)

\* C15: train fails when states and targets differ in length, returns
\* without an error when both are empty, and leaves the output weights as
\* they were in both cases.
C15_TrainRejectsOrSkips ==
  [][ op'.name = "train" =>
        LET a == op'.arg[1]
        IN  /\ Len(a.states) # Len(a.targets) =>
                 (esn_ret'[1] = TrainPanic /\ esn' = esn)
            /\ (a.states = <<>> /\ a.targets = <<>>) =>
                 (esn_ret'[1].status = "ok" /\ esn' = esn) ]_vars

\* C15 witness: train on empty data returned normally and the weights of an
\* earlier training are still there.
C15_Witness ==
  /\ esn # None /\ op.name = "train"
  /\ op.arg[1].states = <<>> /\ op.arg[1].targets = <<>>
  /\ esn_ret[1].status = "ok"
  /\ \E i \in 1..Len(esn[1].output_weights) : ~AllZero(esn[1].output_weights[i])

C17_LoadedAgreesWithOriginal ==
  twin # None =>
    /\ twin[1].reservoir_weights = esn[1].reservoir_weights
    /\ twin[1].input_weights = esn[1].input_weights
    /\ twin[1].output_weights = esn[1].output_weights
    /\ twin[1].state = esn[1].state
    /\ op.name = "update" => (twin_ret[1].status = esn_ret[1].status /\ twin_ret = esn_ret)

(***************************************************************************)
(* Properties of the trainers.                                             *)
(***************************************************************************)
\* the best accuracy after the first k epochs, from the 0.0 train starts with
RECURSIVE BestOf(_, _)
BestOf(accs, k) ==
  IF k = 0 THEN 0
  ELSE IF Gt(accs[k], BestOf(accs, k - 1)) THEN accs[k] ELSE BestOf(accs, k - 1)

\* epoch k strictly exceeded the best accuracy before it
Improved(accs, k) == Gt(accs[k], BestOf(accs, k - 1))

\* the number of consecutive epochs up to k that did not improve
RECURSIVE FlatRun(_, _)
FlatRun(accs, k) ==
  IF k = 0 \/ Improved(accs, k) THEN 0 ELSE 1 + FlatRun(accs, k - 1)

Validating == trainer # None /\ trainer[1].val_data # None /\ trainer[1].pc \in {"loop", "stopped"}

\* what C18 says of the bookkeeping: best accuracy so far, the counter reset
\* on a strict improvement and incremented otherwise, at most config.epochs
\* epochs
Bookkeeping(t) ==
  /\ t.epoch <= t.config.epochs
  /\ Len(t.val_accuracies) = t.epoch
  /\ t.best_val_acc = BestOf(t.val_accuracies, t.epoch)
  /\ t.patience_counter = FlatRun(t.val_accuracies, t.epoch)

\* C18 as stated: after every epoch the run has stopped exactly if the
\* counter has reached patience.
C18_AsStated ==
  Validating =>
    LET t == trainer[1]
    IN  /\ Bookkeeping(t)
        /\ t.epoch >= 1 => (t.pc = "stopped" <=> t.patience_counter >= t.config.patience)

\* C18 amended: the run stops exactly at an epoch that does not improve and
\* brings the counter to patience or more; an epoch that improves never
\* stops it, whatever patience is.
C18_StopsOnFlatEpoch ==
  /\ trainer # None => trainer[1].epoch <= trainer[1].config.epochs
  /\ Validating =>
       LET t == trainer[1]
       IN  /\ Bookkeeping(t)
           /\ t.pc = "stopped" <=>
                /\ t.epoch >= 1
                /\ ~Improved(t.val_accuracies, t.epoch)
                /\ t.patience_counter >= t.config.patience
           /\ t.config.patience >= 1 =>
                (t.pc = "stopped" <=> t.patience_counter = t.config.patience)

\* C18 witness: a run stopped before config.epochs with patience 2, after an
\* epoch that improved on a flat one and set the counter back.
C18_Witness ==
  /\ trainer # None /\ trainer[1].val_data # None
  /\ trainer[1].pc = "stopped"
  /\ trainer[1].config.patience = 2
  /\ trainer[1].epoch < trainer[1].config.epochs
  /\ \E k \in 2..trainer[1].epoch :
       /\ Improved(trainer[1].val_accuracies, k)
       /\ ~Improved(trainer[1].val_accuracies, k - 1)

\* the set of the entries of a sequence
Range(s) == { s[i] : i \in 1..Len(s) }

\* C19: cross_validate returns k_folds accuracies; each fold validates on
\* one contiguous range of indices and trains on all the others; the
\* validation ranges of the folds partition the data set.
C19_FoldsPartitionData ==
  (cv # None /\ cv.ret # None /\ cv.ret[1].status = "ok") =>
    LET r == cv.ret[1]
        n == data_len(cv.data)
    IN  /\ Len(r.accuracies) = cv.k_folds
        /\ Len(r.folds) = cv.k_folds
        /\ \A f \in 1..Len(r.folds) :
             /\ r.folds[f].val_indices =
                  [i \in 1..(r.folds[f].end - r.folds[f].start) |-> r.folds[f].start + i - 1]
             /\ Range(r.folds[f].val_indices) \cap Range(r.folds[f].train_indices) = {}
             /\ Range(r.folds[f].val_indices) \cup Range(r.folds[f].train_indices) = 0..(n - 1)
        /\ \A i \in 0..(n - 1) :
             Cardinality({ f \in 1..Len(r.folds) : i \in Range(r.folds[f].val_indices) }) = 1

\* the examples of a data set, each with its label
Pairs(data) == [i \in 1..data_len(data) |-> <<data.features[i], data.labels[i]>>]

\* C20: for 0 <= ratio <= 1, train_test_split returns floor(n * ratio)
\* training examples and the n - floor(n * ratio) others as test examples;
\* every original example is in exactly one place of the two sets, with its
\* own label, whatever order the shuffle picked.
C20_SplitPartitionsData ==
  (split # None /\ split.ret # None /\ split.train_ratio >= 0 /\ split.train_ratio <= FP) =>
    LET r == split.ret[1]
        n == data_len(split.data)
        k == (n * split.train_ratio) \div FP
    IN  /\ r.status = "ok"
        /\ data_len(r.train) = k /\ Len(r.train.labels) = k
        /\ data_len(r.test) = n - k /\ Len(r.test.labels) = n - k
        /\ \A i \in 1..n :
             Cardinality({ p \in 1..n : (Pairs(r.train) \o Pairs(r.test))[p] = Pairs(split.data)[i] }) = 1

\* C20 witness: four examples split 2 / 2 at ratio 0.7, in an order that is
\* not the original one.
C20_Witness ==
  /\ split # None /\ split.ret # None
  /\ split.train_ratio = (7 * FP) \div 10
  /\ data_len(split.data) = 4
  /\ split.ret[1].status = "ok"
  /\ data_len(split.ret[1].train) = 2 /\ data_len(split.ret[1].test) = 2
  /\ split.ret[1].train.features[1] = split.data.features[4]
  /\ split.ret[1].test.labels[2] = split.data.labels[1]

(***************************************************************************)
(* Properties of ReservoirTrainer::train.                                  *)
(***************************************************************************)
ReservoirTrained == op.name = "ReservoirTrainer::train"

\* C21: ReservoirTrainer::train with inputs.len() different from
\* targets.len() returns an Err value, not a panic, and leaves the state and
\* the output weights of the encoder as they were.
C21_MismatchIsRecoverableErr ==
  [][ (ReservoirTrained' /\ Len(op'.arg[1].inputs) # Len(op'.arg[1].targets))
        => /\ esn_ret'[1].status = "err"
           /\ esn'[1].state = esn[1].state
           /\ esn'[1].output_weights = esn[1].output_weights ]_vars

\* C21 witness: train returned Err on sequences of different lengths for an
\* encoder whose state earlier updates had moved away from zero.
C21_Witness ==
  /\ ReservoirTrained
  /\ Len(op.arg[1].inputs) # Len(op.arg[1].targets)
  /\ esn_ret[1].status = "err"
  /\ ~AllZero(esn[1].state)

\* C29: after a successful ReservoirTrainer::train on a non-empty sequence
\* the state of the encoder is the state reached by feeding the same inputs
\* in order to an all-zero state, whatever state it had at the call.
C29_StateIsReplayFromZero ==
  [][ (ReservoirTrained' /\ esn_ret'[1].status = "ok" /\ op'.arg[1].inputs # <<>>)
        => esn'[1].state =
             FeedFrom([esn[1] EXCEPT !.state = [i \in 1..Len(esn[1].state) |-> 0]],
                      op'.arg[1].inputs, 1, <<>>).esn.state ]_vars

\* C29 witness: a successful train of two inputs on an encoder that was not
\* at rest when train was called and is not at rest after it.
C29_Witness ==
  /\ ReservoirTrained
  /\ esn_ret[1].status = "ok"
  /\ Len(op.arg[1].inputs) = 2
  /\ ~AllZero(op.arg[1].state)
  /\ ~AllZero(esn[1].state)

(***************************************************************************)
(* Properties of the MLP under training calls (continued).                 *)
(***************************************************************************)
\* the output of layers k.. on act with ReLU after every layer but the last:
\* Layer rectifies an affine map unless told its row count is the output size
RECURSIVE RectifiedButLast(_, _, _)
RectifiedButLast(m, k, act) ==
  IF k > Len(m.weights) THEN act
  ELSE RectifiedButLast(m, k + 1,
         Layer([m EXCEPT !.output_size = IF k = Len(m.weights) THEN Len(m.weights[k])
                                         ELSE 0 - 1],
               k, act))

\* C26: forward, and the forward recomputation inside backward, apply ReLU to
\* the output of every layer except the final one and leave the final
\* layer's output unrectified, for every layer-size list.
C26_ReluOnEveryLayerButLast ==
  /\ (op.name = "forward" /\ output[1].status = "ok")
       => output[1].value = RectifiedButLast(net[1], 1, input)
  /\ (op.name = "backward" /\ output[1].status = "ok")
       => LET acts == ActivationsFrom(net[1], 1, <<input>>)
          IN  acts[Len(acts)] = RectifiedButLast(net[1], 1, input)

\* C27: update changes weight values only: no call of update, train_step or
\* backward changes a bias, so every bias of a freshly constructed classifier
\* is zero after any sequence of these calls.
C27_BiasesStayZero ==
  /\ [](\A l \in 1..Len(net[1].biases) : AllZero(net[1].biases[l]))
  /\ [][net'[1].biases = net[1].biases]_vars

\* C27 witness: update has run and changed weights of a classifier that has
\* biases.
C27_Witness ==
  /\ op.name = "update" /\ output[1].status = "ok"
  /\ net[1].weights # MLP_new(net[1].input_size, net[1].hidden_sizes, net[1].output_size).weights
  /\ \E l \in 1..Len(net[1].biases) : net[1].biases[l] # <<>>

\* C28: in every epoch train calls backward followed by update exactly once
\* for each training example, in index order, in mini-batch mode as in
\* full-batch mode: the network after an iteration of the loop is the network
\* before it taken through backward and update on the examples 1..len in turn.
C28_EveryExampleOncePerEpoch ==
  [][ TrainEpoch =>
        trainer'[1].mlp = ExamplePass(trainer[1].mlp, trainer[1].train_data,
                                      trainer[1].config.learning_rate,
                                      1, data_len(trainer[1].train_data), 0).mlp ]_vars

\* the set the final evaluation of a returned call is about
FinalSet == IF trainer[1].val_data # None THEN trainer[1].val_data[1] ELSE trainer[1].train_data

\* C30: a call of train that returns gives one training loss per epoch run,
\* one validation accuracy per epoch run when validation data was supplied and
\* none otherwise; test_accuracy and the 3x3 confusion matrix are those of the
\* validation set when supplied and of the training set otherwise; entry
\* [t][p] counts the examples of true label t predicted as p, and the entries
\* sum to the size of that set.
C30_MetricsOfTheRun ==
  (trainer # None /\ trainer[1].pc = "done") =>
    LET t  == trainer[1]
        mt == t.metrics[1]
        cm == mt.confusion_matrix
        predicted(i) == argmax(forward(t.mlp, FinalSet.features[i]).value).value
    IN  /\ Len(mt.train_losses) = t.epoch
        /\ Len(mt.val_accuracies) = IF t.val_data # None THEN t.epoch ELSE 0
        /\ mt.test_accuracy = evaluate_accuracy(t.mlp, FinalSet).value
        /\ DOMAIN cm = 1..3 /\ \A a \in 1..3 : DOMAIN cm[a] = 1..3
        /\ \A a, b \in 1..3 :
             cm[a][b] = Cardinality({ i \in 1..data_len(FinalSet) :
                                        FinalSet.labels[i] = a - 1 /\ predicted(i) = b - 1 })
        /\ cm[1][1] + cm[1][2] + cm[1][3] + cm[2][1] + cm[2][2] + cm[2][3]
             + cm[3][1] + cm[3][2] + cm[3][3] = data_len(FinalSet)

\* C30 witness: a call with validation data other than the training data has
\* returned after early stopping cut the epochs short.
C30_Witness ==
  /\ trainer # None /\ trainer[1].pc = "done"
  /\ trainer[1].val_data # None /\ trainer[1].val_data[1] # trainer[1].train_data
  /\ trainer[1].epoch >= 2 /\ trainer[1].epoch < trainer[1].config.epochs
  /\ data_len(trainer[1].val_data[1]) > 0

(***************************************************************************)
(* Properties of the SensorBuffer.                                         *)
(***************************************************************************)
\* C24: for a buffer created with any max_size, len() <= max_size after any
\* sequence of push and clear calls, and every push completes: onto a full
\* buffer it removes exactly the oldest reading and appends the new one last,
\* otherwise it appends the new one last.
C24_BoundedInInsertionOrder ==
  /\ [](Len(buffer[1].readings) <= buffer[1].max_size)
  /\ [][ \A reading \in Readings :
           Push(reading) =>
             LET old == buffer[1].readings
             IN  /\ buffer_ret' = Some("ok")
                 /\ buffer'[1].readings =
                      IF Len(old) >= buffer[1].max_size
                        THEN Append(SubSeq(old, 2, Len(old)), reading)
                        ELSE Append(old, reading) ]_vars

(***************************************************************************)
(* Properties of the ExpertSystem.                                         *)
(***************************************************************************)
\* the positions of the rules that match q and block
BlockingRules(rules, q) ==
  { k \in 1..Len(rules) : rules[k].action = "Block" /\ predicate(rules[k], q) }

\* C25: evaluate returns allowed = false with the description and the id of
\* the first rule in list order that matches and blocks; matching Warn and Log
\* rules neither block nor end the scan; a query that matches no Block rule is
\* allowed with no reason and no rule id.
C25_FirstMatchingBlockRule ==
  op.name = "evaluate" =>
    LET rules == expert[1].rules
        blocking == BlockingRules(rules, op.arg[1])
    IN  IF blocking = {}
          THEN eval[1] = [allowed |-> TRUE, reason |-> None, rule_id |-> None]
          ELSE LET first == CHOOSE k \in blocking : \A j \in blocking : k <= j
               IN  eval[1] = [allowed |-> FALSE, reason |-> Some(rules[first].description),
                              rule_id |-> Some(rules[first].id)]

\* C25 witness: evaluate has blocked a query by a rule that comes after a
\* matching Warn or Log rule.
C25_Witness ==
  /\ op.name = "evaluate" /\ ~eval[1].allowed
  /\ \E k \in BlockingRules(expert[1].rules, op.arg[1]) :
       /\ eval[1].rule_id = Some(expert[1].rules[k].id)
       /\ \E j \in 1..(k - 1) : /\ expert[1].rules[j].action \in {"Warn", "Log"}
                                /\ predicate(expert[1].rules[j], op.arg[1])

(***************************************************************************)
(* Properties of the ContextManager.                                       *)
(***************************************************************************)
\* the main history and the per-project histories
Histories(cm) == {cm.history} \cup { cm.project_contexts[p] : p \in DOMAIN cm.project_contexts }

\* the number of the add_turn call that stored the turn
CallOf(turn) == CHOOSE i \in 0..MaxTurns : turn.query = NumberedQuery(i)

\* history, after one more turn, with the oldest turn evicted when it was full
AfterTurn(history, turn) ==
  <<turn>> \o (IF Len(history) >= MAX_HISTORY_SIZE
                 THEN SubSeq(history, 1, Len(history) - 1) ELSE history)

\* C23: the main history and every per-project history hold at most 100
\* turns, most recent first, and add_turn puts the new turn in front, evicting
\* exactly the oldest turn of a history that was full.
C23_BoundedMostRecentFirst ==
  /\ [](\A h \in Histories(context[1]) :
          /\ Len(h) <= MAX_HISTORY_SIZE
          /\ \A k \in 1..(Len(h) - 1) : CallOf(h[k]) > CallOf(h[k + 1]))
  /\ [][ AddTurn =>
           LET cm == context[1]
               turn == [query |-> NumberedQuery(calls), response |-> create_test_response(calls)]
           IN  /\ context'[1].history = AfterTurn(cm.history, turn)
               /\ cm.current_project # None =>
                    LET p == cm.current_project[1]
                    IN  context'[1].project_contexts[p] =
                          AfterTurn(IF p \in DOMAIN cm.project_contexts
                                      THEN cm.project_contexts[p] ELSE <<>>, turn) ]_vars

\* C23 witness: add_turn has evicted the oldest turn of the full main history
\* and of the full history of the current project.
C23_Witness ==
  /\ op.name = "add_turn" /\ context[1].current_project # None
  /\ LET h == context[1].history
         ph == context[1].project_contexts[context[1].current_project[1]]
     IN  /\ Len(h) = MAX_HISTORY_SIZE /\ CallOf(h[Len(h)]) > 0
         /\ Len(ph) = MAX_HISTORY_SIZE /\ CallOf(ph[Len(ph)]) > 0

(***************************************************************************)
(* Properties of the Orchestrator.                                         *)
(***************************************************************************)
\* C22: process stores the (query, response) turn exactly when it returns Ok.
\* A query the expert system rejects comes back as Err and leaves the context
\* as it was, so does a query routed to Remote in a build without the network
\* feature, and after a call that returned Ok the new turn is the first
\* element of recent_history.
C22_StoredExactlyWhenOk ==
  [][ op'.name = "process" =>
        LET q == op'.arg[1]
            r == response'[1]
            routed == route(config, mlp, use_mlp, <<>>, q)
        IN  /\ r.status # "ok" => context' = context
            /\ r.status = "ok" =>
                 /\ recent_history(context'[1], 1) = <<[query |-> q, response |-> r.value]>>
                 /\ SubSeq(context'[1].history, 2, Len(context'[1].history)) = context[1].history
            /\ ~evaluate(expert[1], q).allowed => r.status = "err"
            /\ (evaluate(expert[1], q).allowed /\ routed.decision = Remote /\ ~network)
                 => r.status = "err" ]_vars

\* C22 witness: a call routed to Remote has failed in a build without the
\* network feature, after an earlier call succeeded and was stored.
C22_Witness ==
  /\ op.name = "process" /\ ~network
  /\ response[1].status = "err"
  /\ evaluate(expert[1], op.arg[1]).allowed
  /\ Len(context[1].history) = 1

====
